---- MODULE Spec2Model ----
(***************************************************************************)
(* A model of the vstats command-line client: one process invocation at a  *)
(* time reads the configuration file, runs one command handler to its end  *)
(* (a strictly ordered sequence of blocking gateway calls and at most one  *)
(* ssh subprocess) and exits.  The cloud service and the file system are   *)
(* the environment; their answers are nondeterministic.                    *)
(***************************************************************************)
EXTENDS Integers, Sequences, FiniteSets, TLC

VARIABLES
    disk,    \* the configuration file at the default path
    cfg,     \* the package-level cfg object of the running process
    cloud,   \* the state of the remote service: servers, web instances
    inv,     \* the command line of the running process
    pc,      \* position of the running handler
    loc,     \* the local variables of the running handler
    log,     \* gateway requests and ssh invocations issued by this process
    ret,     \* the error returned by the handler (a chain; <<>> is nil)
    out      \* what the handler has presented on standard output

vars == <<disk, cfg, cloud, inv, pc, loc, log, ret, out>>

(***************************************************************************)
(* Bounds of the model.                                                    *)
(***************************************************************************)
MaxServers == 3
MaxWebs == 2

(***************************************************************************)
(* Go values.  A pointer is a sequence of length at most one: <<>> is nil. *)
(* An error is a chain of frames, outermost first; fmt.Errorf with %w      *)
(* prepends a frame to the wrapped chain, without %w it makes a chain of   *)
(* length one.  A Go string that the program compares or takes apart is a  *)
(* sequence of atoms (runs of characters the program never looks inside);  *)
(* <<>> is the empty string.                                               *)
(***************************************************************************)
Nil == <<>>

Ptr(v) == <<v>>

NoErr == <<>>

Frame(msg, arg, status) == [msg |-> msg, arg |-> arg, status |-> status]

Errorf(msg, arg) == <<Frame(msg, arg, 0)>>

Wrapf(msg, e) == <<Frame(msg, <<>>, 0)>> \o e

(***************************************************************************)
(* Configuration (config.go).                                              *)
(***************************************************************************)
DefaultCloudURL == "https://api.vstats.zsoft.cc"

DefaultCfg == [CloudURL |-> DefaultCloudURL, Token |-> <<>>, Username |-> "", ExpiresAt |-> 0]

\* yaml.Marshal(cfg): cloud_url is always written, the three omitempty
\* fields only when they are not the zero value.
yamlMarshal(c) ==
    [keys |-> {"cloud_url"}
                \cup (IF c.Token # <<>> THEN {"token"} ELSE {})
                \cup (IF c.Username # "" THEN {"username"} ELSE {})
                \cup (IF c.ExpiresAt # 0 THEN {"expires_at"} ELSE {}),
     cloud_url |-> c.CloudURL,
     token |-> c.Token,
     username |-> c.Username,
     expires_at |-> c.ExpiresAt]

\* yaml.Unmarshal(data, cfg): a key of the document overwrites the field,
\* a field whose key is absent keeps the value it had.
yamlUnmarshal(doc, base) ==
    [CloudURL |-> IF "cloud_url" \in doc.keys THEN doc.cloud_url ELSE base.CloudURL,
     Token |-> IF "token" \in doc.keys THEN doc.token ELSE base.Token,
     Username |-> IF "username" \in doc.keys THEN doc.username ELSE base.Username,
     ExpiresAt |-> IF "expires_at" \in doc.keys THEN doc.expires_at ELSE base.ExpiresAt]

EmptyDoc == [keys |-> {}, cloud_url |-> "", token |-> <<>>, username |-> "", expires_at |-> 0]

NoFile == [exists |-> FALSE, doc |-> EmptyDoc]

File(doc) == [exists |-> TRUE, doc |-> doc]

\* LoadConfig: a missing file is not an error and leaves cfg as it is.
LoadConfig(d, base) == IF d.exists THEN yamlUnmarshal(d.doc, base) ELSE base

\* SaveConfig: the outcomes of the file system.  "ok" writes the document;
\* "nopath" and "mkdir" fail before the file is opened; "write" fails after
\* os.WriteFile has truncated the file.
SaveOutcomes == {"ok", "nopath", "mkdir", "write"}

SaveConfigDisk(d, c, o) ==
    CASE o = "ok" -> File(yamlMarshal(c))
      [] o = "write" -> File(EmptyDoc)
      [] OTHER -> d

SaveConfigErr(o) == IF o = "ok" THEN NoErr ELSE Errorf("<fs>", <<o>>)

\* A check that also wants the stored expiry to lie ahead.
IsLoggedInUnexpired(c) == c.Token # <<>> /\ c.ExpiresAt > inv.now

IsLoggedIn(c) == c.Token # <<>>

requireLoginSkipped(c) == NoErr

requireLogin(c) ==
    IF ~IsLoggedIn(c) THEN Errorf("not logged in. Run 'vstats login' first", <<>>) ELSE NoErr

(***************************************************************************)
(* The gateway client (client.go).                                         *)
(***************************************************************************)
\* What the HTTP layer can hand back to Do: a transport failure, or a
\* status with a body that is a JSON document of the expected shape
\* ("json"), a structured {error, message} payload ("apierr"), such a
\* payload with an empty error field ("apimsg"), or not JSON at all ("text").
Responses ==
    {[t |-> "transport", status |-> 0, body |-> "none"]}
    \cup [t : {"http"}, status : {200}, body : {"json", "text"}]
    \cup [t : {"http"}, status : {400}, body : {"apierr", "apimsg", "text"}]

RespOK(r) == r.t = "http" /\ r.status < 400

\* NewClient: base URL and token are copied from cfg at construction.
NewClient(c) == [BaseURL |-> c.CloudURL, Token |-> c.Token]

\* json.Unmarshal(respBody, &apiErr): whether the body decodes, and the
\* two fields of APIError after it.
decodeAPIError(r) ==
    CASE r.body = "apierr" -> [ok |-> TRUE, Error |-> "<error field>", Message |-> "<message field>"]
      [] r.body = "apimsg" -> [ok |-> TRUE, Error |-> "", Message |-> "<message field>"]
      [] OTHER -> [ok |-> FALSE, Error |-> "", Message |-> ""]

\* The error Client.Do returns for a response; hasResult says whether a
\* decode target was passed.
DoErr(r, hasResult) ==
    IF r.t = "transport" THEN Wrapf("request failed: ", Errorf("<transport>", <<>>))
    ELSE IF r.status >= 400
         THEN IF decodeAPIError(r).ok /\ decodeAPIError(r).Error # ""
              THEN Errorf("API error: ", <<decodeAPIError(r).Error>>)
              ELSE <<Frame("request failed with status : ", <<r.body>>, r.status)>>
    ELSE IF hasResult /\ r.body # "json"
         THEN Wrapf("failed to parse response: ", Errorf("<json>", <<>>))
    ELSE NoErr

\* A request as it leaves Do: the typed operation, verb, path segments,
\* body and the bearer token of the Authorization header.
Request(client, op, method, path, body) ==
    [kind |-> "http", op |-> op, method |-> method, path |-> path,
     body |-> body, auth |-> client.Token, base |-> client.BaseURL]


RECURSIVE TrimLeft(_)
TrimLeft(s) == IF s # <<>> /\ Head(s) = " " THEN TrimLeft(Tail(s)) ELSE s

RECURSIVE TrimRight(_)
TrimRight(s) ==
    IF s # <<>> /\ s[Len(s)] = " " THEN TrimRight(SubSeq(s, 1, Len(s) - 1)) ELSE s

\* strings.TrimSpace
TrimSpace(s) == TrimRight(TrimLeft(s))

(***************************************************************************)
(* The remote service.  Its records are owned by the service; the client   *)
(* sees them only through responses.  Agent keys are opaque: the n-th key  *)
(* the service issues is the number n.                                     *)
(***************************************************************************)
ServerIDs == <<<<"s1">>, <<"s2">>, <<"s3">>, <<"s4">>, <<"s5">>>>

WebIDs == <<<<"w1">>, <<"w2">>, <<"w3">>, <<"w4">>>>

ZeroServer == [ID |-> <<>>, Name |-> <<>>, AgentKey |-> 0, Status |-> ""]

ZeroURL == [scheme |-> "", authority |-> <<>>, port |-> <<>>]

ZeroWeb == [ID |-> <<>>, Name |-> <<>>, Host |-> <<>>, Port |-> 0, URL |-> ZeroURL, Status |-> ""]

ZeroPlan == [Plan |-> "", MaxWebApps |-> 0, CurrentCount |-> 0, IsPro |-> FALSE]

ZeroVerify == [Valid |-> FALSE, Username |-> ""]

\* The accounts of the service: bearer token -> username.
Accounts == {[token |-> <<"tokA">>, user |-> "alice"], [token |-> <<"tokB">>, user |-> ""]}

AccountOf(tok) == {a \in Accounts : a.token = tok}

Srv(id, name, key) == [ID |-> id, Name |-> name, AgentKey |-> key, Status |-> "offline"]

\* Indices of the records with a given id in a listing (at most one).
IdxOf(list, id) == {i \in 1..Len(list) : list[i].ID = id}

Has(list, id) == IdxOf(list, id) # {}

Get(list, id) == list[CHOOSE i \in IdxOf(list, id) : TRUE]

Without(list, id) == SelectSeq(list, LAMBDA x : x.ID # id)

\* Plans the service may report for the account.
Plans ==
    {[Plan |-> "pro", MaxWebApps |-> -1, CurrentCount |-> 2, IsPro |-> TRUE],
     [Plan |-> "pro", MaxWebApps |-> 1, CurrentCount |-> 1, IsPro |-> TRUE],
     [Plan |-> "free", MaxWebApps |-> 1, CurrentCount |-> 0, IsPro |-> FALSE],
     [Plan |-> "free", MaxWebApps |-> 1, CurrentCount |-> 1, IsPro |-> FALSE],
     [Plan |-> "free", MaxWebApps |-> 2, CurrentCount |-> 3, IsPro |-> FALSE],
     [Plan |-> "free", MaxWebApps |-> -1, CurrentCount |-> 0, IsPro |-> FALSE]}


(***************************************************************************)
(* The service's side of each endpoint: whether the request can be served  *)
(* (can), the document a 2xx response carries (payload) and the state of   *)
(* the service after serving it (cloud).                                   *)
(***************************************************************************)
ServerOps == {"GetServer", "UpdateServer", "DeleteServer", "RegenerateAgentKey",
              "GetInstallCommand", "GetServerMetrics", "GetServerHistory"}

WebOps == {"GetWebInstance", "UpdateWebInstance", "RemoveWebInstance", "CheckWebInstance"}

\* The identifier embedded in the path of a request.
PathID(q) == IF q.op \in ServerOps THEN q.path[2] ELSE q.path[3]

Replace(list, id, rec) == [i \in 1..Len(list) |-> IF list[i].ID = id THEN rec ELSE list[i]]

Serve(c, q) ==
    CASE q.op = "ListServers" ->
            [can |-> TRUE, payload |-> c.servers, cloud |-> c]
      [] q.op = "CreateServer" ->
            LET new == IF c.issued < Len(ServerIDs)
                       THEN Srv(ServerIDs[c.issued + 1], q.body.name, c.keys + 1)
                       ELSE ZeroServer
            IN [can |-> Len(c.servers) < MaxServers /\ c.issued < Len(ServerIDs),
                payload |-> new,
                cloud |-> [c EXCEPT !.servers = Append(@, new), !.issued = @ + 1,
                                    !.keys = @ + 1]]
      [] q.op \in {"GetServer", "GetInstallCommand", "GetServerMetrics", "GetServerHistory"} ->
            [can |-> Has(c.servers, PathID(q)),
             payload |-> IF Has(c.servers, PathID(q)) THEN Get(c.servers, PathID(q))
                         ELSE ZeroServer,
             cloud |-> c]
      [] q.op = "UpdateServer" ->
            LET id == PathID(q)
                new == IF Has(c.servers, id)
                       THEN [Get(c.servers, id) EXCEPT !.Name = q.body.name]
                       ELSE ZeroServer
            IN [can |-> Has(c.servers, id), payload |-> new,
                cloud |-> [c EXCEPT !.servers = Replace(@, id, new)]]
      [] q.op = "DeleteServer" ->
            [can |-> Has(c.servers, PathID(q)), payload |-> Nil,
             cloud |-> [c EXCEPT !.servers = Without(@, PathID(q))]]
      [] q.op = "RegenerateAgentKey" ->
            LET id == PathID(q)
                new == IF Has(c.servers, id)
                       THEN [Get(c.servers, id) EXCEPT !.AgentKey = c.keys + 1]
                       ELSE ZeroServer
            IN [can |-> Has(c.servers, id), payload |-> [AgentKey |-> c.keys + 1],
                cloud |-> [c EXCEPT !.servers = Replace(@, id, new), !.keys = @ + 1]]
      [] q.op = "ListWebInstances" ->
            [can |-> TRUE, payload |-> c.webs, cloud |-> c]
      [] q.op = "RegisterWebInstance" ->
            LET new == IF c.webIssued < Len(WebIDs)
                       THEN [q.body EXCEPT !.ID = WebIDs[c.webIssued + 1],
                                           !.Status = "pending"]
                       ELSE ZeroWeb
            IN [can |-> Len(c.webs) < MaxWebs /\ c.webIssued < Len(WebIDs),
                payload |-> new,
                cloud |-> [c EXCEPT !.webs = Append(@, new), !.webIssued = @ + 1]]
      [] q.op \in {"GetWebInstance", "CheckWebInstance"} ->
            [can |-> Has(c.webs, PathID(q)),
             payload |-> IF Has(c.webs, PathID(q)) THEN Get(c.webs, PathID(q)) ELSE ZeroWeb,
             cloud |-> c]
      [] q.op = "UpdateWebInstance" ->
            [can |-> Has(c.webs, PathID(q)), payload |-> Nil,
             cloud |-> [c EXCEPT !.webs = Replace(@, PathID(q), q.body)]]
      [] q.op = "RemoveWebInstance" ->
            [can |-> Has(c.webs, PathID(q)), payload |-> Nil,
             cloud |-> [c EXCEPT !.webs = Without(@, PathID(q))]]
      [] OTHER ->
            [can |-> TRUE, payload |-> Nil, cloud |-> c]

\* The responses the service may give to a request: any failure at any
\* time, a 2xx only when the request can be served.
Answers(c, q) == IF Serve(c, q).can THEN Responses ELSE {r \in Responses : ~RespOK(r)}

\* The service after answering: a request answered 2xx has been carried out.
After(c, q, r) == IF RespOK(r) THEN Serve(c, q).cloud ELSE c

(***************************************************************************)
(* Typed operations (client.go, web.go).  Each yields the request it       *)
(* sends, and the (result, error) pair it returns for response r whose     *)
(* 2xx document is doc.  The server operations return a nil result with an *)
(* error; the web and plan operations return the address of their local    *)
(* variable whatever the error is.                                         *)
(***************************************************************************)
\* A completed call as the log keeps it: the request, the response it
\* got, and the error and the result the typed operation returned for it.
Completed(q, r, e, res) ==
    [kind |-> q.kind, op |-> q.op, method |-> q.method, path |-> q.path, body |-> q.body,
     auth |-> q.auth, base |-> q.base, resp |-> r, err |-> e, res |-> res]

Outcome(q, r, e, res) == [req |-> Completed(q, r, e, res), err |-> e, res |-> res]

NilOnErr(q, r, doc) ==
    Outcome(q, r, DoErr(r, TRUE), IF DoErr(r, TRUE) # NoErr THEN Nil ELSE Ptr(doc))

AddrAlways(q, r, doc, zero) ==
    Outcome(q, r, DoErr(r, TRUE), IF DoErr(r, TRUE) # NoErr THEN Ptr(zero) ELSE Ptr(doc))

NoResult(q, r) == Outcome(q, r, DoErr(r, FALSE), Nil)

VerifyTokenReq(cl) == Request(cl, "VerifyToken", "GET", <<"/api/auth/verify">>, Nil)

VerifyToken(cl, r, doc) == NilOnErr(VerifyTokenReq(cl), r, doc)

GetCurrentUserReq(cl) == Request(cl, "GetCurrentUser", "GET", <<"/api/auth/me">>, Nil)

GetCurrentUser(cl, r, doc) == NilOnErr(GetCurrentUserReq(cl), r, doc)

ListServersReq(cl) == Request(cl, "ListServers", "GET", <<"/api/servers">>, Nil)

\* a nil slice with an error, the decoded slice otherwise
ListServers(cl, r, doc) ==
    Outcome(ListServersReq(cl), r, DoErr(r, TRUE), IF DoErr(r, TRUE) # NoErr THEN <<>> ELSE doc)

CreateServerReq(cl, name) ==
    Request(cl, "CreateServer", "POST", <<"/api/servers">>, [name |-> name])

CreateServer(cl, name, r, doc) == NilOnErr(CreateServerReq(cl, name), r, doc)

GetServerReq(cl, id) == Request(cl, "GetServer", "GET", <<"/api/servers/", id>>, Nil)

GetServer(cl, id, r, doc) == NilOnErr(GetServerReq(cl, id), r, doc)

UpdateServerReq(cl, id, name) ==
    Request(cl, "UpdateServer", "PUT", <<"/api/servers/", id>>, [name |-> name])

UpdateServer(cl, id, name, r, doc) == NilOnErr(UpdateServerReq(cl, id, name), r, doc)

DeleteServerReq(cl, id) == Request(cl, "DeleteServer", "DELETE", <<"/api/servers/", id>>, Nil)

DeleteServer(cl, id, r) == NoResult(DeleteServerReq(cl, id), r)

RegenerateAgentKeyReq(cl, id) ==
    Request(cl, "RegenerateAgentKey", "POST", <<"/api/servers/", id, "/regenerate-key">>, Nil)

RegenerateAgentKey(cl, id, r, doc) == NilOnErr(RegenerateAgentKeyReq(cl, id), r, doc)

GetInstallCommandReq(cl, id) ==
    Request(cl, "GetInstallCommand", "GET", <<"/api/servers/", id, "/install-command">>, Nil)

GetInstallCommand(cl, id, r, doc) == NilOnErr(GetInstallCommandReq(cl, id), r, doc)

GetServerMetricsReq(cl, id) ==
    Request(cl, "GetServerMetrics", "GET", <<"/api/servers/", id, "/metrics">>, Nil)

GetServerMetrics(cl, id, r, doc) == NilOnErr(GetServerMetricsReq(cl, id), r, doc)

\* the range is a query parameter, left out when it is empty
GetServerHistoryReq(cl, id, rangeStr) ==
    Request(cl, "GetServerHistory", "GET",
            IF rangeStr # "" THEN <<"/api/servers/", id, "/history", "?range=", rangeStr>>
            ELSE <<"/api/servers/", id, "/history">>, Nil)

GetServerHistory(cl, id, rangeStr, r, doc) ==
    NilOnErr(GetServerHistoryReq(cl, id, rangeStr), r, doc)

ListWebInstancesReq(cl) ==
    Request(cl, "ListWebInstances", "GET", <<"/api", "/web/instances">>, Nil)

\* the slice as far as it was decoded, together with the error
ListWebInstances(cl, r, doc) ==
    Outcome(ListWebInstancesReq(cl), r, DoErr(r, TRUE),
            IF DoErr(r, TRUE) # NoErr THEN <<>> ELSE doc)

GetWebInstanceReq(cl, id) ==
    Request(cl, "GetWebInstance", "GET", <<"/api", "/web/instances/", id>>, Nil)

GetWebInstance(cl, id, r, doc) == AddrAlways(GetWebInstanceReq(cl, id), r, doc, ZeroWeb)

RegisterWebInstanceReq(cl, instance) ==
    Request(cl, "RegisterWebInstance", "POST", <<"/api", "/web/instances">>, instance)

RegisterWebInstance(cl, instance, r, doc) ==
    AddrAlways(RegisterWebInstanceReq(cl, instance), r, doc, ZeroWeb)

UpdateWebInstanceReq(cl, instance) ==
    Request(cl, "UpdateWebInstance", "PUT", <<"/api", "/web/instances/", instance.ID>>, instance)

UpdateWebInstance(cl, instance, r) == NoResult(UpdateWebInstanceReq(cl, instance), r)

RemoveWebInstanceReq(cl, id) ==
    Request(cl, "RemoveWebInstance", "DELETE", <<"/api", "/web/instances/", id>>, Nil)

RemoveWebInstance(cl, id, r) == NoResult(RemoveWebInstanceReq(cl, id), r)

CheckWebInstanceReq(cl, id) ==
    Request(cl, "CheckWebInstance", "GET", <<"/api", "/web/instances/", id, "/check">>, Nil)

CheckWebInstance(cl, id, r, doc) ==
    AddrAlways(CheckWebInstanceReq(cl, id), r, doc, ZeroWeb)

GetUserPlanReq(cl) == Request(cl, "GetUserPlan", "GET", <<"/api", "/user/plan">>, Nil)

GetUserPlan(cl, r, doc) == AddrAlways(GetUserPlanReq(cl), r, doc, ZeroPlan)


(***************************************************************************)
(* Command lines.  Only the flags a command reads are varied for it.       *)
(***************************************************************************)
BaseInv ==
    [cmd |-> "", cloudURL |-> "", ref |-> <<>>, name |-> <<>>, force |-> FALSE,
     confirm |-> <<>>, regenerate |-> FALSE, range |-> "1h", hostArg |-> <<>>,
     sshUser |-> <<>>, sshPort |-> 0, sshKey |-> <<>>, server |-> <<>>,
     webPort |-> 3001, domain |-> <<>>, ssl |-> FALSE, token |-> <<>>,
     stdin |-> <<>>, stdinOK |-> TRUE, tty |-> TRUE, key |-> "", value |-> "",
     outputFmt |-> "table", now |-> 0]

\* Tokens typed or passed with --token.
TokenInputs == {<<>>, <<"tokA">>, <<"tokB">>, <<"bad">>}

\* What can arrive on standard input at the token prompt.
StdinInputs == {<<>>, <<"tokA">>, <<" ", "tokA", " ">>}

LoginInvs ==
    {[BaseInv EXCEPT !.cmd = "login", !.token = t] : t \in TokenInputs \ {<<>>}}
    \cup {[BaseInv EXCEPT !.cmd = "login", !.stdin = i, !.stdinOK = ok, !.tty = tty] :
            i \in StdinInputs, ok \in BOOLEAN, tty \in BOOLEAN}

ConfigInvs ==
    {[BaseInv EXCEPT !.cmd = "config set", !.key = k, !.value = "https://set"] :
        k \in {"cloud_url", "token"}}
    \cup {[BaseInv EXCEPT !.cmd = "config show", !.outputFmt = f] :
            f \in {"table", "json", "yaml"}}

\* Server references a user may type: ids, names, and a string that is neither.
Refs == {<<"s1">>, <<"s2">>, <<"web">>, <<"Web">>, <<"nope">>}

Names == {<<"web">>, <<"Web">>}

Answers_yn == {<<>>, <<"y">>, <<"YES">>, <<"n">>}

PlainInvs == {[BaseInv EXCEPT !.cmd = c] : c \in {"logout", "whoami", "server list"}}

ServerCreateInvs == {[BaseInv EXCEPT !.cmd = "server create", !.name = n] : n \in Names}

(***************************************************************************)
(* Process start (root.go): cobra runs initConfig, then the handler.       *)
(***************************************************************************)
ZeroLoc ==
    [token |-> <<>>, verify |-> Nil, server |-> Nil, instance |-> Nil, plan |-> Nil,
     user |-> <<>>, host |-> <<>>, name |-> <<>>, webPort |-> 0, sshArgs |-> <<>>,
     installCmd |-> <<>>, sshErr |-> NoErr]

\* initConfig: load the file, then let --cloud-url override the URL.
initConfig(d, flag) ==
    LET loaded == LoadConfig(d, DefaultCfg)
    IN IF flag # "" THEN [loaded EXCEPT !.CloudURL = flag] ELSE loaded


(***************************************************************************)
(* Resource resolution (server.go, findServerByNameOrID).                  *)
(***************************************************************************)
SetMin(S) == CHOOSE x \in S : \A y \in S : x <= y

SetMax(S) == CHOOSE x \in S : \A y \in S : x >= y

\* A scan that keeps the last server of that name instead of the first.
scanByNameLast(servers, nameOrID) ==
    LET hits == {i \in 1..Len(servers) : servers[i].Name = nameOrID}
    IN IF hits # {} THEN Ptr(servers[SetMax(hits)]) ELSE Nil

\* The scan of the listing: the first server whose name is the reference.
scanByName(servers, nameOrID) ==
    LET hits == {i \in 1..Len(servers) : servers[i].Name = nameOrID}
    IN IF hits # {} THEN Ptr(servers[SetMin(hits)]) ELSE Nil

\* A not-found error that wraps the error in hand.
notFoundWrapping(nameOrID, cause) == Wrapf("server not found: ", cause)

\* The error of an exhausted lookup; cause is the error in hand, unused.
notFound(nameOrID, cause) == Errorf("server not found: ", nameOrID)

\* A lookup that always requests the listing as well.
findServerListing(cl, nameOrID, c, r1, r2) ==
    LET g == GetServer(cl, nameOrID, r1, Serve(c, GetServerReq(cl, nameOrID)).payload)
        l == ListServers(cl, r2, Serve(c, ListServersReq(cl)).payload)
        s == scanByName(l.res, nameOrID)
    IN IF g.err = NoErr THEN [server |-> g.res, err |-> NoErr, reqs |-> <<g.req, l.req>>]
       ELSE IF l.err # NoErr
            THEN [server |-> Nil, err |-> Errorf("server not found: ", nameOrID),
                  reqs |-> <<g.req, l.req>>]
       ELSE IF s # Nil THEN [server |-> s, err |-> NoErr, reqs |-> <<g.req, l.req>>]
       ELSE [server |-> Nil, err |-> Errorf("server not found: ", nameOrID),
             reqs |-> <<g.req, l.req>>]

\* r1 answers the fetch by id, r2 the listing; the listing is requested
\* only when the fetch has failed.  reqs are the requests issued, in order.
findServerByNameOrID(cl, nameOrID, c, r1, r2) ==
    LET g == GetServer(cl, nameOrID, r1, Serve(c, GetServerReq(cl, nameOrID)).payload)
        l == ListServers(cl, r2, Serve(c, ListServersReq(cl)).payload)
        s == scanByName(l.res, nameOrID)
    IN IF g.err = NoErr
       THEN [server |-> g.res, err |-> NoErr, reqs |-> <<g.req>>]
       ELSE IF l.err # NoErr
       THEN [server |-> Nil, err |-> notFound(nameOrID, l.err), reqs |-> <<g.req, l.req>>]
       ELSE IF s # Nil
       THEN [server |-> s, err |-> NoErr, reqs |-> <<g.req, l.req>>]
       ELSE [server |-> Nil, err |-> notFound(nameOrID, g.err), reqs |-> <<g.req, l.req>>]

\* The responses to the two calls of a lookup.
FindAnswers(cl, nameOrID, c) ==
    Answers(c, GetServerReq(cl, nameOrID)) \X Answers(c, ListServersReq(cl))

(***************************************************************************)
(* SSH helpers (ssh.go) and the URL of a dashboard (web.go).               *)
(***************************************************************************)
AtIdx(s) == {i \in 1..Len(s) : s[i] = "@"}

\* A parser that splits at the last "@".
parseSSHHostLast(hostArg) ==
    IF AtIdx(hostArg) # {}
    THEN LET k == SetMax(AtIdx(hostArg))
         IN [user |-> SubSeq(hostArg, 1, k - 1), host |-> SubSeq(hostArg, k + 1, Len(hostArg))]
    ELSE [user |-> <<>>, host |-> hostArg]

\* parseSSHHost: split at the first "@"; no "@" means no user.
parseSSHHost(hostArg) ==
    IF AtIdx(hostArg) # {}
    THEN LET k == SetMin(AtIdx(hostArg))
         IN [user |-> SubSeq(hostArg, 1, k - 1), host |-> SubSeq(hostArg, k + 1, Len(hostArg))]
    ELSE [user |-> <<>>, host |-> hostArg]

\* A derivation without the root default.
effectiveUserNoDefault(parsed, sshUser) == IF sshUser # <<>> THEN sshUser ELSE parsed

\* The user the handlers pass on: --user, else the parsed user, else root.
effectiveUser(parsed, sshUser) ==
    LET u == IF sshUser # <<>> THEN sshUser ELSE parsed
    IN IF u = <<>> THEN <<"root">> ELSE u

\* fmt.Sprintf("%d", n) for the port numbers of the model.
Itoa(n) ==
    CASE n = 22 -> "22" [] n = 2222 -> "2222" [] n = 80 -> "80" [] n = 443 -> "443"
      [] n = 3001 -> "3001" [] n = 8080 -> "8080" [] OTHER -> "0"

\* buildSSHArgs: the arguments are strings; the target is the last one.
buildSSHArgs(user, host, sshPort, sshKey) ==
    (IF sshPort # 0 THEN <<<<"-p">>, <<Itoa(sshPort)>>>> ELSE <<>>)
    \o (IF sshKey # <<>> THEN <<<<"-i">>, sshKey>> ELSE <<>>)
    \o <<IF user # <<>> THEN user \o <<"@">> \o host ELSE host>>

\* runSSHCommand: ssh is looked up, started and waited for.
SSHOutcomes == {"ok", "nossh", "launch", "exit"}

runSSHCommandErr(o) ==
    CASE o = "ok" -> NoErr
      [] o = "nossh" -> Errorf("ssh not found in PATH. Please install OpenSSH", <<>>)
      [] o = "launch" -> Errorf("<exec>", <<>>)
      [] OTHER -> Errorf("<exit status>", <<>>)

\* A completed runSSHCommand as the log keeps it; started says whether the
\* ssh subprocess came to run.
SSHCall(sshArgs, command, o) ==
    [kind |-> "ssh", op |-> "runSSHCommand", args |-> Append(sshArgs, command),
     started |-> o \in {"ok", "exit"}, err |-> runSSHCommandErr(o)]

\* A URL builder that leaves the port out only when it is the default
\* port of the scheme, with or without a domain.
buildWebURLSchemeDefault(host, port, domain, ssl) ==
    LET scheme == IF ssl THEN "https" ELSE "http"
        authority == IF domain # <<>> THEN domain ELSE host
    IN IF (ssl /\ port = 443) \/ (~ssl /\ port = 80)
       THEN [scheme |-> scheme, authority |-> authority, port |-> <<>>]
       ELSE [scheme |-> scheme, authority |-> authority, port |-> <<port>>]

\* buildWebURL: scheme, authority and the port when it is shown.
buildWebURL(host, port, domain, ssl) ==
    LET scheme == IF ssl THEN "https" ELSE "http"
    IN IF domain # <<>>
       THEN IF ssl /\ port = 443 THEN [scheme |-> scheme, authority |-> domain, port |-> <<>>]
            ELSE IF ~ssl /\ port = 80
                 THEN [scheme |-> scheme, authority |-> domain, port |-> <<>>]
            ELSE [scheme |-> scheme, authority |-> domain, port |-> <<port>>]
       ELSE IF port = 80 \/ port = 443
            THEN [scheme |-> scheme, authority |-> host, port |-> <<>>]
            ELSE [scheme |-> scheme, authority |-> host, port |-> <<port>>]

\* cfg.CloudURL, or the default when it is empty.
cloudURLOrDefault(c) == IF c.CloudURL = "" THEN "https://api.vstats.zsoft.cc" ELSE c.CloudURL


(***************************************************************************)
(* login, logout, config (auth.go, config.go).                             *)
(***************************************************************************)
\* time.Now() of a process, in seconds: the moment sessions of the stored
\* files were made, and a moment after their expiry.
Times == {1000, 700000}

ExpiryPeriod == 604800

\* The token runLogin ends up with: the flag, else the prompt.  On a
\* terminal the typed line is taken as it is, from a pipe it is trimmed.
readToken(i) ==
    IF i.token # <<>> THEN [tok |-> i.token, err |-> NoErr]
    ELSE IF ~i.stdinOK
         THEN [tok |-> <<>>, err |-> Wrapf("failed to read token: ", Errorf("<read>", <<>>))]
    ELSE IF i.tty THEN [tok |-> i.stdin, err |-> NoErr]
    ELSE [tok |-> TrimSpace(i.stdin), err |-> NoErr]

\* What the service answers 2xx to a verify request carrying tok.
VerifyDoc(tok) ==
    IF AccountOf(tok) # {}
    THEN [Valid |-> TRUE, Username |-> (CHOOSE a \in AccountOf(tok) : TRUE).user]
    ELSE ZeroVerify

\* A login that stores the token and the expiry but keeps the old username.
loginSessionStaleUser(c, token, resp, now) ==
    [c EXCEPT !.Token = token, !.ExpiresAt = now + ExpiryPeriod]

\* The session fields runLogin stores after a valid verify response.
loginSession(c, token, resp, now) ==
    [c EXCEPT !.Token = token, !.Username = resp.Username, !.ExpiresAt = now + ExpiryPeriod]

\* The session fields logout clears.
logoutSession(c) == [c EXCEPT !.Token = <<>>, !.Username = "", !.ExpiresAt = 0]

SaveCall(c, o) ==
    [kind |-> "save", op |-> "SaveConfig", doc |-> yamlMarshal(c), err |-> SaveConfigErr(o)]

SaveErr(o) ==
    IF SaveConfigErr(o) # NoErr THEN Wrapf("failed to save config: ", SaveConfigErr(o))
    ELSE NoErr

Exit(e) == pc' = "done" /\ ret' = e

CloudURLFlags == {"", "https://flag"}

\* A login that stores the token in cfg before it is verified.
LoginStoresFirst ==
    /\ pc = "start" /\ inv.cmd = "login"
    /\ UNCHANGED inv
    /\ LET rd == readToken(inv)
       IN IF rd.err # NoErr
          THEN Exit(rd.err) /\ UNCHANGED <<disk, cfg, cloud, loc, log, out>>
          ELSE IF rd.tok = <<>>
          THEN /\ Exit(Errorf("token is required", <<>>))
               /\ UNCHANGED <<disk, cfg, cloud, loc, log, out>>
          ELSE \E r \in Responses, now \in {inv.now}, o \in SaveOutcomes :
                 LET cl == [BaseURL |-> cfg.CloudURL, Token |-> rd.tok]
                     v == VerifyToken(cl, r, VerifyDoc(rd.tok))
                     c2 == loginSession(cfg, rd.tok, v.res[1], now)
                 IN /\ loc' = [loc EXCEPT !.token = rd.tok, !.verify = v.res]
                    /\ UNCHANGED cloud
                    /\ IF v.err # NoErr
                       THEN /\ Exit(Wrapf("authentication failed: ", v.err))
                            /\ log' = Append(log, v.req)
                            /\ cfg' = [cfg EXCEPT !.Token = rd.tok]
                            /\ UNCHANGED <<disk, out>>
                       ELSE IF ~v.res[1].Valid
                       THEN /\ Exit(Errorf("invalid token", <<>>))
                            /\ log' = Append(log, v.req)
                            /\ cfg' = [cfg EXCEPT !.Token = rd.tok]
                            /\ UNCHANGED <<disk, out>>
                       ELSE /\ cfg' = c2
                            /\ disk' = SaveConfigDisk(disk, c2, o)
                            /\ log' = log \o <<v.req, SaveCall(c2, o)>>
                            /\ Exit(SaveErr(o))
                            /\ out' = IF o = "ok"
                                      THEN <<[what |-> "Logged in as", val |-> v.res[1].Username]>>
                                      ELSE out

Login ==
    /\ pc = "start" /\ inv.cmd = "login"
    /\ UNCHANGED inv
    /\ LET rd == readToken(inv)
       IN IF rd.err # NoErr
          THEN Exit(rd.err) /\ UNCHANGED <<disk, cfg, cloud, loc, log, out>>
          ELSE IF rd.tok = <<>>
          THEN /\ Exit(Errorf("token is required", <<>>))
               /\ UNCHANGED <<disk, cfg, cloud, loc, log, out>>
          ELSE \E r \in Responses, now \in {inv.now}, o \in SaveOutcomes :
                 LET cl == [BaseURL |-> cfg.CloudURL, Token |-> rd.tok]
                     v == VerifyToken(cl, r, VerifyDoc(rd.tok))
                     c2 == loginSession(cfg, rd.tok, v.res[1], now)
                 IN /\ loc' = [loc EXCEPT !.token = rd.tok, !.verify = v.res]
                    /\ UNCHANGED cloud
                    /\ IF v.err # NoErr
                       THEN /\ Exit(Wrapf("authentication failed: ", v.err))
                            /\ log' = Append(log, v.req)
                            /\ UNCHANGED <<disk, cfg, out>>
                       ELSE IF ~v.res[1].Valid
                       THEN /\ Exit(Errorf("invalid token", <<>>))
                            /\ log' = Append(log, v.req)
                            /\ UNCHANGED <<disk, cfg, out>>
                       ELSE /\ cfg' = c2
                            /\ disk' = SaveConfigDisk(disk, c2, o)
                            /\ log' = log \o <<v.req, SaveCall(c2, o)>>
                            /\ Exit(SaveErr(o))
                            /\ out' = IF o = "ok"
                                      THEN <<[what |-> "Logged in as", val |-> v.res[1].Username]>>
                                      ELSE out

\* A logout that clears and saves whether or not there is a session.
logoutRunAlways(c, d, o) ==
    [cfg |-> logoutSession(c),
     disk |-> SaveConfigDisk(d, logoutSession(c), o),
     calls |-> <<SaveCall(logoutSession(c), o)>>,
     err |-> SaveErr(o),
     out |-> IF o = "ok" THEN <<[what |-> "Logged out from", val |-> c.Username]>> ELSE <<>>]

\* The handler of logout on configuration c and file d, o being the
\* outcome of the write if it comes to one: what it leaves in memory and
\* on disk, the writes it makes, what it returns and what it prints.
logoutRun(c, d, o) ==
    IF ~IsLoggedIn(c)
    THEN [cfg |-> c, disk |-> d, calls |-> <<>>, err |-> NoErr,
          out |-> <<[what |-> "Not logged in", val |-> ""]>>]
    ELSE [cfg |-> logoutSession(c),
          disk |-> SaveConfigDisk(d, logoutSession(c), o),
          calls |-> <<SaveCall(logoutSession(c), o)>>,
          err |-> SaveErr(o),
          out |-> IF o = "ok" THEN <<[what |-> "Logged out from", val |-> c.Username]>>
                  ELSE <<>>]

Logout ==
    /\ pc = "start" /\ inv.cmd = "logout"
    /\ UNCHANGED inv
    /\ \E o \in SaveOutcomes :
         LET run == logoutRun(cfg, disk, o)
         IN /\ cfg' = run.cfg
            /\ disk' = run.disk
            /\ log' = log \o run.calls
            /\ Exit(run.err)
            /\ out' = out \o run.out
    /\ UNCHANGED <<cloud, loc>>

ConfigSet ==
    /\ pc = "start" /\ inv.cmd = "config set"
    /\ UNCHANGED inv
    /\ IF inv.key # "cloud_url"
       THEN /\ Exit(Errorf("unknown configuration key: ", <<inv.key>>))
            /\ UNCHANGED <<disk, cfg, cloud, loc, log, out>>
       ELSE \E o \in SaveOutcomes :
              LET c2 == [cfg EXCEPT !.CloudURL = inv.value]
              IN /\ cfg' = c2
                 /\ disk' = SaveConfigDisk(disk, c2, o)
                 /\ log' = Append(log, SaveCall(c2, o))
                 /\ Exit(SaveErr(o))
                 /\ out' = IF o = "ok"
                           THEN <<[what |-> "Configuration updated", val |-> inv.value]>>
                           ELSE out
                 /\ UNCHANGED <<cloud, loc>>

\* The struct configShowCmd renders: the token itself is not a field of it.
configDisplay(c) ==
    [CloudURL |-> c.CloudURL, Username |-> c.Username, LoggedIn |-> IsLoggedIn(c),
     ExpiresAt |-> c.ExpiresAt]

\* A rendering that puts the token next to the other fields.
configOutputWithToken(fmt, c) ==
    LET d == configDisplay(c)
    IN [what |-> fmt,
        keys |-> {"cloud_url", "username", "logged_in", "token"},
        cloud_url |-> d.CloudURL, username |-> d.Username, logged_in |-> d.LoggedIn,
        expires_at |-> 0, token |-> c.Token]

\* What config show prints for cfg c: the JSON and YAML documents leave out
\* an empty username and a zero expiry, the table has three lines and no
\* expiry.
configOutput(fmt, c) ==
    LET d == configDisplay(c)
    IN IF fmt \in {"json", "yaml"}
       THEN [what |-> fmt,
             keys |-> {"cloud_url", "logged_in"}
                         \cup (IF d.Username # "" THEN {"username"} ELSE {})
                         \cup (IF d.ExpiresAt # 0 THEN {"expires_at"} ELSE {}),
             cloud_url |-> d.CloudURL, username |-> d.Username, logged_in |-> d.LoggedIn,
             expires_at |-> d.ExpiresAt]
       ELSE [what |-> "table",
             keys |-> {"cloud_url", "username", "logged_in"},
             cloud_url |-> d.CloudURL, username |-> d.Username, logged_in |-> d.LoggedIn,
             expires_at |-> 0]

ConfigShow ==
    /\ pc = "start" /\ inv.cmd = "config show"
    /\ UNCHANGED inv
    /\ Exit(NoErr)
    /\ out' = <<configOutput(inv.outputFmt, cfg)>>
    /\ UNCHANGED <<disk, cfg, cloud, loc, log>>


(***************************************************************************)
(* Commands that need a session.  Every handler begins with the login      *)
(* check; whoami spells the same check out inline.                         *)
(***************************************************************************)
RefCmds == {"server show", "server delete", "server update", "server metrics",
            "server history", "server install", "server key"}

AuthCmds == {"whoami", "server list", "server create", "ssh agent", "ssh web",
             "web list", "web remove", "web status", "web check"} \cup RefCmds

loginCheck(cmd, c) ==
    IF cmd = "whoami"
    THEN IF ~IsLoggedIn(c) THEN Errorf("not logged in. Run 'vstats login' first", <<>>)
         ELSE NoErr
    ELSE requireLogin(c)

RequireLogin ==
    /\ pc = "start" /\ inv.cmd \in AuthCmds
    /\ UNCHANGED inv
    /\ IF loginCheck(inv.cmd, cfg) # NoErr
       THEN Exit(loginCheck(inv.cmd, cfg))
       ELSE pc' = "body" /\ UNCHANGED ret
    /\ UNCHANGED <<disk, cfg, cloud, loc, log, out>>

\* One gateway call that ends the handler: x is the typed operation's
\* outcome, msg the prefix the handler wraps a failure in.
EndWith(x, r, msg) ==
    /\ log' = Append(log, x.req)
    /\ cloud' = After(cloud, x.req, r)
    /\ Exit(IF x.err # NoErr THEN Wrapf(msg, x.err) ELSE NoErr)
    /\ out' = IF x.err = NoErr THEN <<[what |-> x.req.op, val |-> x.res]>> ELSE out

Whoami ==
    /\ pc = "body" /\ inv.cmd = "whoami"
    /\ UNCHANGED inv
    /\ \E r \in Answers(cloud, GetCurrentUserReq(NewClient(cfg))) :
         EndWith(GetCurrentUser(NewClient(cfg), r, [Username |-> VerifyDoc(cfg.Token).Username]),
                 r, "failed to get user info: ")
    /\ UNCHANGED <<disk, cfg, loc>>

ServerList ==
    /\ pc = "body" /\ inv.cmd = "server list"
    /\ UNCHANGED inv
    /\ \E r \in Answers(cloud, ListServersReq(NewClient(cfg))) :
         EndWith(ListServers(NewClient(cfg), r, cloud.servers), r, "failed to list servers: ")
    /\ UNCHANGED <<disk, cfg, loc>>

ServerCreate ==
    /\ pc = "body" /\ inv.cmd = "server create"
    /\ UNCHANGED inv
    /\ LET q == CreateServerReq(NewClient(cfg), inv.name)
       IN \E r \in Answers(cloud, q) :
            EndWith(CreateServer(NewClient(cfg), inv.name, r, Serve(cloud, q).payload),
                    r, "failed to create server: ")
    /\ UNCHANGED <<disk, cfg, loc>>

\* The reference a handler resolves: args[0], or --server for ssh agent.
refOf(i) == IF i.cmd = "ssh agent" THEN i.server ELSE i.ref

\* The two-stage lookup as each handler runs it.  server update rejects an
\* empty --name before it looks anything up.
Find ==
    /\ pc = "body"
    /\ UNCHANGED inv
    /\ inv.cmd \in RefCmds \/ (inv.cmd = "ssh agent" /\ inv.server # <<>>)
    /\ IF inv.cmd = "server update" /\ inv.name = <<>>
       THEN /\ Exit(Errorf("no changes specified. Use --name to update the server name", <<>>))
            /\ UNCHANGED <<loc, log>>
       ELSE \E rr \in FindAnswers(NewClient(cfg), refOf(inv), cloud) :
              LET f == findServerByNameOrID(NewClient(cfg), refOf(inv), cloud, rr[1], rr[2])
              IN /\ log' = log \o f.reqs
                 /\ loc' = [loc EXCEPT !.server = f.server]
                 /\ IF f.err # NoErr THEN Exit(f.err) ELSE pc' = "found" /\ UNCHANGED ret
    /\ UNCHANGED <<disk, cfg, cloud, out>>

ServerShow ==
    /\ pc = "found" /\ inv.cmd = "server show"
    /\ UNCHANGED inv
    /\ Exit(NoErr)
    /\ out' = <<[what |-> "server", val |-> loc.server]>>
    /\ UNCHANGED <<disk, cfg, cloud, loc, log>>

ToLowerAtom(a) ==
    CASE a = "Y" -> "y" [] a = "YES" -> "yes" [] a = "Yes" -> "yes" [] a = "N" -> "n"
      [] a = "Web" -> "web" [] a = "WEB" -> "web" [] OTHER -> a

\* strings.ToLower
ToLower(str) == [i \in 1..Len(str) |-> ToLowerAtom(str[i])]

\* A confirmation that takes everything but n and no for a yes.
confirmedUnlessNo(force, answer) ==
    force \/ ~(ToLower(answer) = <<"n">> \/ ToLower(answer) = <<"no">>)

\* The delete handlers go on when --force is set or the answer is y or yes.
confirmed(force, answer) ==
    force \/ ~(ToLower(answer) # <<"y">> /\ ToLower(answer) # <<"yes">>)

ServerDelete ==
    /\ pc = "found" /\ inv.cmd = "server delete"
    /\ UNCHANGED inv
    /\ IF ~confirmed(inv.force, inv.confirm)
       THEN /\ Exit(NoErr)
            /\ out' = <<[what |-> "Cancelled.", val |-> Nil]>>
            /\ UNCHANGED <<cloud, log>>
       ELSE LET q == DeleteServerReq(NewClient(cfg), loc.server[1].ID)
            IN \E r \in Answers(cloud, q) :
                 EndWith(DeleteServer(NewClient(cfg), loc.server[1].ID, r), r,
                         "failed to delete server: ")
    /\ UNCHANGED <<disk, cfg, loc>>

ServerUpdate ==
    /\ pc = "found" /\ inv.cmd = "server update"
    /\ UNCHANGED inv
    /\ LET q == UpdateServerReq(NewClient(cfg), loc.server[1].ID, inv.name)
       IN \E r \in Answers(cloud, q) :
            EndWith(UpdateServer(NewClient(cfg), loc.server[1].ID, inv.name, r,
                                 Serve(cloud, q).payload),
                    r, "failed to update server: ")
    /\ UNCHANGED <<disk, cfg, loc>>

ServerMetrics ==
    /\ pc = "found" /\ inv.cmd = "server metrics"
    /\ UNCHANGED inv
    /\ LET q == GetServerMetricsReq(NewClient(cfg), loc.server[1].ID)
       IN \E r \in Answers(cloud, q) :
            EndWith(GetServerMetrics(NewClient(cfg), loc.server[1].ID, r,
                                     Serve(cloud, q).payload),
                    r, "failed to get metrics: ")
    /\ UNCHANGED <<disk, cfg, loc>>

\* A history handler that passes the reference as typed to the gateway.
ServerHistoryRawRef ==
    /\ pc = "found" /\ inv.cmd = "server history"
    /\ UNCHANGED inv
    /\ LET rangeStr == IF inv.range = "" THEN "1h" ELSE inv.range
           q == GetServerHistoryReq(NewClient(cfg), inv.ref, rangeStr)
       IN \E r \in Answers(cloud, q) :
            EndWith(GetServerHistory(NewClient(cfg), inv.ref, rangeStr, r,
                                     Serve(cloud, q).payload),
                    r, "failed to get history: ")
    /\ UNCHANGED <<disk, cfg, loc>>

ServerHistory ==
    /\ pc = "found" /\ inv.cmd = "server history"
    /\ UNCHANGED inv
    /\ LET rangeStr == IF inv.range = "" THEN "1h" ELSE inv.range
           q == GetServerHistoryReq(NewClient(cfg), loc.server[1].ID, rangeStr)
       IN \E r \in Answers(cloud, q) :
            EndWith(GetServerHistory(NewClient(cfg), loc.server[1].ID, rangeStr, r,
                                     Serve(cloud, q).payload),
                    r, "failed to get history: ")
    /\ UNCHANGED <<disk, cfg, loc>>

ServerInstall ==
    /\ pc = "found" /\ inv.cmd = "server install"
    /\ UNCHANGED inv
    /\ LET q == GetInstallCommandReq(NewClient(cfg), loc.server[1].ID)
       IN \E r \in Answers(cloud, q) :
            EndWith(GetInstallCommand(NewClient(cfg), loc.server[1].ID, r,
                                      Serve(cloud, q).payload),
                    r, "failed to get install command: ")
    /\ UNCHANGED <<disk, cfg, loc>>

\* The key serverKeyCmd presents: the regenerated one, or the record's.
\* What server key presents: the JSON and YAML documents hold the key, the
\* table view the name of the server and the key.
keyOutput(fmt, name, key) ==
    IF fmt \in {"json", "yaml"}
    THEN [what |-> fmt, val |-> [name |-> <<>>, agent_key |-> key]]
    ELSE [what |-> "table", val |-> [name |-> name, agent_key |-> key]]

\* A handler that presents the key of the record it looked up.
staleKey(server, resp) == server.AgentKey

\* The key presented after a regeneration: the one of the response.
presentedKey(server, resp) == resp.AgentKey

\* A server key handler that writes the configuration back after a
\* regeneration.
ServerKeySaving ==
    /\ pc = "found" /\ inv.cmd = "server key"
    /\ UNCHANGED inv
    /\ IF inv.regenerate
       THEN LET q == RegenerateAgentKeyReq(NewClient(cfg), loc.server[1].ID)
            IN \E r \in Answers(cloud, q), o \in SaveOutcomes :
                 LET x == RegenerateAgentKey(NewClient(cfg), loc.server[1].ID, r,
                                             Serve(cloud, q).payload)
                 IN /\ log' = IF x.err = NoErr THEN log \o <<x.req, SaveCall(cfg, o)>>
                               ELSE Append(log, x.req)
                    /\ disk' = IF x.err = NoErr THEN SaveConfigDisk(disk, cfg, o) ELSE disk
                    /\ cloud' = After(cloud, q, r)
                    /\ Exit(IF x.err # NoErr THEN Wrapf("failed to regenerate key: ", x.err)
                            ELSE SaveErr(o))
                    /\ out' = out
       ELSE /\ Exit(NoErr)
            /\ out' = <<keyOutput(inv.outputFmt, loc.server[1].Name, loc.server[1].AgentKey)>>
            /\ UNCHANGED <<cloud, log, disk>>
    /\ UNCHANGED <<cfg, loc>>

ServerKey ==
    /\ pc = "found" /\ inv.cmd = "server key"
    /\ UNCHANGED inv
    /\ IF inv.regenerate
       THEN LET q == RegenerateAgentKeyReq(NewClient(cfg), loc.server[1].ID)
            IN \E r \in Answers(cloud, q) :
                 LET x == RegenerateAgentKey(NewClient(cfg), loc.server[1].ID, r,
                                             Serve(cloud, q).payload)
                 IN /\ log' = Append(log, x.req)
                    /\ cloud' = After(cloud, q, r)
                    /\ Exit(IF x.err # NoErr THEN Wrapf("failed to regenerate key: ", x.err)
                            ELSE NoErr)
                    /\ out' = IF x.err = NoErr
                              THEN <<keyOutput(inv.outputFmt, loc.server[1].Name,
                                               presentedKey(loc.server[1], x.res[1]))>>
                              ELSE out
       ELSE /\ Exit(NoErr)
            /\ out' = <<keyOutput(inv.outputFmt, loc.server[1].Name, loc.server[1].AgentKey)>>
            /\ UNCHANGED <<cloud, log>>
    /\ UNCHANGED <<disk, cfg, loc>>


(***************************************************************************)
(* web list / status / check / remove (web.go).                            *)
(***************************************************************************)
WebList ==
    /\ pc = "body" /\ inv.cmd = "web list"
    /\ UNCHANGED inv
    /\ \E r \in Answers(cloud, ListWebInstancesReq(NewClient(cfg))) :
         EndWith(ListWebInstances(NewClient(cfg), r, cloud.webs), r,
                 "failed to list web instances: ")
    /\ UNCHANGED <<disk, cfg, loc>>

WebStatus ==
    /\ pc = "body" /\ inv.cmd = "web status"
    /\ UNCHANGED inv
    /\ \E r1 \in Responses, plan \in Plans, r2 \in Responses :
         LET p == GetUserPlan(NewClient(cfg), r1, plan)
             l == ListWebInstances(NewClient(cfg), r2, cloud.webs)
         IN IF p.err # NoErr
            THEN /\ log' = Append(log, p.req)
                 /\ Exit(Wrapf("failed to get plan: ", p.err))
                 /\ UNCHANGED out
            ELSE /\ log' = log \o <<p.req, l.req>>
                 /\ Exit(IF l.err # NoErr THEN Wrapf("failed to list instances: ", l.err)
                         ELSE NoErr)
                 /\ out' = IF l.err = NoErr
                           THEN <<[what |-> "status", val |-> <<p.res[1], l.res>>]>>
                           ELSE out
    /\ UNCHANGED <<disk, cfg, cloud, loc>>

WebCheck ==
    /\ pc = "body" /\ inv.cmd = "web check"
    /\ UNCHANGED inv
    /\ LET q1 == GetWebInstanceReq(NewClient(cfg), inv.ref)
       IN \E r1 \in Answers(cloud, q1) :
            LET g == GetWebInstance(NewClient(cfg), inv.ref, r1, Serve(cloud, q1).payload)
                q2 == CheckWebInstanceReq(NewClient(cfg), g.res[1].ID)
            IN IF g.err # NoErr
               THEN /\ log' = Append(log, g.req)
                    /\ Exit(Errorf("web instance not found: ", inv.ref))
                    /\ UNCHANGED <<loc, out>>
               ELSE \E r2 \in Answers(cloud, q2) :
                      LET k == CheckWebInstance(NewClient(cfg), g.res[1].ID, r2,
                                                Serve(cloud, q2).payload)
                      IN /\ log' = log \o <<g.req, k.req>>
                         /\ loc' = [loc EXCEPT !.instance = g.res]
                         /\ Exit(NoErr)
                         /\ out' = IF k.err # NoErr
                                   THEN <<[what |-> "Health check failed", val |-> k.err]>>
                                   ELSE <<[what |-> "check", val |-> k.res]>>
    /\ UNCHANGED <<disk, cfg, cloud>>

WebRemove ==
    /\ pc = "body" /\ inv.cmd = "web remove"
    /\ UNCHANGED inv
    /\ LET q1 == GetWebInstanceReq(NewClient(cfg), inv.ref)
       IN \E r1 \in Answers(cloud, q1) :
            LET g == GetWebInstance(NewClient(cfg), inv.ref, r1, Serve(cloud, q1).payload)
                q2 == RemoveWebInstanceReq(NewClient(cfg), g.res[1].ID)
            IN IF g.err # NoErr
               THEN /\ log' = Append(log, g.req)
                    /\ Exit(Errorf("web instance not found: ", inv.ref))
                    /\ UNCHANGED <<loc, out, cloud>>
               ELSE IF ~confirmed(inv.force, inv.confirm)
               THEN /\ log' = Append(log, g.req)
                    /\ loc' = [loc EXCEPT !.instance = g.res]
                    /\ Exit(NoErr)
                    /\ out' = <<[what |-> "Cancelled.", val |-> Nil]>>
                    /\ UNCHANGED cloud
               ELSE \E r2 \in Answers(cloud, q2) :
                      LET d == RemoveWebInstance(NewClient(cfg), g.res[1].ID, r2)
                      IN /\ log' = log \o <<g.req, d.req>>
                         /\ loc' = [loc EXCEPT !.instance = g.res]
                         /\ cloud' = After(cloud, q2, r2)
                         /\ Exit(IF d.err # NoErr
                                 THEN Wrapf("failed to remove instance: ", d.err) ELSE NoErr)
                         /\ out' = IF d.err = NoErr
                                   THEN <<[what |-> "removed", val |-> g.res[1].Name]>>
                                   ELSE out
    /\ UNCHANGED <<disk, cfg>>

(***************************************************************************)
(* ssh agent (ssh.go, sshAgentCmd).                                        *)
(***************************************************************************)
\* --name, else the host part of the argument.
agentServerName(i) == IF i.name # <<>> THEN i.name ELSE parseSSHHost(i.hostArg).host

\* The remote command of the agent installer.
agentInstallCmd(c, serverName) ==
    [script |-> "https://vstats.zsoft.cc/agent.sh",
     flags |-> <<<<"--server", cloudURLOrDefault(c)>>, <<"--token", c.Token>>,
                 <<"--name", serverName>>>>]

SshAgentCreate ==
    /\ pc = "body" /\ inv.cmd = "ssh agent" /\ inv.server = <<>>
    /\ UNCHANGED inv
    /\ LET q == CreateServerReq(NewClient(cfg), agentServerName(inv))
       IN \E r \in Answers(cloud, q) :
            LET x == CreateServer(NewClient(cfg), agentServerName(inv), r, Serve(cloud, q).payload)
            IN /\ log' = Append(log, x.req)
               /\ cloud' = After(cloud, q, r)
               /\ loc' = [loc EXCEPT !.server = x.res]
               /\ IF x.err # NoErr
                  THEN Exit(Wrapf("failed to create server: ", x.err))
                  ELSE pc' = "found" /\ UNCHANGED ret
    /\ UNCHANGED <<disk, cfg, out>>

\* An ssh agent step that deletes the server of the run when ssh has failed.
SshAgentRunRollback ==
    /\ pc = "found" /\ inv.cmd = "ssh agent"
    /\ UNCHANGED inv
    /\ \E o \in SSHOutcomes, r \in Responses :
         LET h == parseSSHHost(inv.hostArg)
             user == effectiveUser(h.user, inv.sshUser)
             sshArgs == buildSSHArgs(user, h.host, inv.sshPort, inv.sshKey)
             installCmd == agentInstallCmd(cfg, agentServerName(inv))
             e == runSSHCommandErr(o)
             x == DeleteServer(NewClient(cfg), loc.server[1].ID, r)
         IN /\ log' = IF e # NoErr
                       THEN log \o <<SSHCall(sshArgs, installCmd, o), x.req>>
                       ELSE Append(log, SSHCall(sshArgs, installCmd, o))
            /\ cloud' = IF e # NoErr THEN After(cloud, x.req, r) ELSE cloud
            /\ loc' = [loc EXCEPT !.user = user, !.host = h.host, !.name = agentServerName(inv),
                                  !.sshArgs = sshArgs, !.installCmd = installCmd,
                                  !.sshErr = e]
            /\ Exit(IF e # NoErr THEN Wrapf("deployment failed: ", e) ELSE NoErr)
            /\ out' = out
    /\ UNCHANGED <<disk, cfg>>

SshAgentRun ==
    /\ pc = "found" /\ inv.cmd = "ssh agent"
    /\ UNCHANGED inv
    /\ \E o \in SSHOutcomes :
         LET h == parseSSHHost(inv.hostArg)
             user == effectiveUser(h.user, inv.sshUser)
             sshArgs == buildSSHArgs(user, h.host, inv.sshPort, inv.sshKey)
             installCmd == agentInstallCmd(cfg, agentServerName(inv))
             e == runSSHCommandErr(o)
         IN /\ log' = Append(log, SSHCall(sshArgs, installCmd, o))
            /\ loc' = [loc EXCEPT !.user = user, !.host = h.host, !.name = agentServerName(inv),
                                  !.sshArgs = sshArgs, !.installCmd = installCmd,
                                  !.sshErr = e]
            /\ Exit(IF e # NoErr THEN Wrapf("deployment failed: ", e) ELSE NoErr)
            /\ out' = IF e = NoErr
                      THEN <<[what |-> "Agent Deployed Successfully!",
                              val |-> <<loc.server[1].ID, loc.server[1].AgentKey>>]>>
                      ELSE out
    /\ UNCHANGED <<disk, cfg, cloud>>


(***************************************************************************)
(* ssh web (ssh.go, sshWebCmd).                                            *)
(***************************************************************************)
\* A pre-flight check that lets a plan at its limit through.
quotaExceededStrict(plan) == ~plan.IsPro /\ plan.CurrentCount > plan.MaxWebApps

\* The pre-flight check on the fetched plan.
quotaExceeded(plan) == ~plan.IsPro /\ plan.CurrentCount >= plan.MaxWebApps

\* --name, else web-<host>.
webNameOf(i) == IF i.name # <<>> THEN i.name ELSE <<"web-">> \o parseSSHHost(i.hostArg).host

\* --web-port, else 3001.
webPortOf(i) == IF i.webPort = 0 THEN 3001 ELSE i.webPort

\* The record sshWebCmd registers.
webRecord(i) ==
    [ZeroWeb EXCEPT !.Name = webNameOf(i), !.Host = parseSSHHost(i.hostArg).host,
                    !.Port = webPortOf(i),
                    !.URL = buildWebURL(parseSSHHost(i.hostArg).host, webPortOf(i),
                                        i.domain, i.ssl)]

\* An installer command whose --ssl and --domain flags each follow their
\* own option.
webInstallCmdEachFlag(c, webPort, domain, ssl) ==
    [script |-> "https://vstats.zsoft.cc/install.sh",
     flags |-> <<<<"--cloud-mode">>, <<"--cloud-url", cloudURLOrDefault(c)>>,
                 <<"--cloud-token", c.Token>>, <<"--port", webPort>>>>
               \o (IF ssl THEN <<<<"--ssl">>>> ELSE <<>>)
               \o (IF domain # <<>> THEN <<<<"--domain", domain>>>> ELSE <<>>)]

\* The remote command of the dashboard installer.
webInstallCmd(c, webPort, domain, ssl) ==
    [script |-> "https://vstats.zsoft.cc/install.sh",
     flags |-> <<<<"--cloud-mode">>, <<"--cloud-url", cloudURLOrDefault(c)>>,
                 <<"--cloud-token", c.Token>>, <<"--port", webPort>>>>
               \o (IF ssl /\ domain # <<>> THEN <<<<"--ssl">>, <<"--domain", domain>>>>
                   ELSE <<>>)]

\* A handler that goes on to the status update whatever ssh returned.
afterSSHAlwaysUpdate(e) == "update"

\* A deployment error that surfaces the error of a failed cleanup.
deployErrCleanup(sshErr, cleanupErr) ==
    IF cleanupErr # NoErr THEN Wrapf("cleanup failed: ", cleanupErr)
    ELSE Wrapf("deployment failed: ", sshErr)

\* An update that leaves the status as registered.
markUnchanged(instance) == instance

\* Where sshWebCmd goes after the ssh step: to the compensating removal
\* when it failed, to the status update otherwise.
afterSSH(e) == IF e # NoErr THEN "cleanup" ELSE "update"

\* The error of a failed deployment; the error of the cleanup is dropped.
deployErr(sshErr, cleanupErr) == Wrapf("deployment failed: ", sshErr)

\* instance.Status = "online"
markOnline(instance) == [instance EXCEPT !.Status = "online"]

\* A pre-flight step that also fetches the listing of web instances.
SshWebPlanListing ==
    /\ pc = "body" /\ inv.cmd = "ssh web"
    /\ UNCHANGED inv
    /\ \E r \in Responses, plan \in Plans, r2 \in Responses :
         LET p == GetUserPlan(NewClient(cfg), r, plan)
             l == ListWebInstances(NewClient(cfg), r2, cloud.webs)
         IN /\ log' = IF p.err # NoErr THEN Append(log, p.req) ELSE log \o <<p.req, l.req>>
            /\ loc' = [loc EXCEPT !.plan = p.res]
            /\ IF p.err # NoErr THEN Exit(Wrapf("failed to check plan: ", p.err))
               ELSE IF l.err # NoErr THEN Exit(Wrapf("failed to list instances: ", l.err))
               ELSE IF quotaExceeded(p.res[1])
               THEN Exit(Errorf("web instance limit reached", <<>>))
               ELSE pc' = "register" /\ UNCHANGED ret
    /\ UNCHANGED <<disk, cfg, cloud, out>>

SshWebPlan ==
    /\ pc = "body" /\ inv.cmd = "ssh web"
    /\ UNCHANGED inv
    /\ \E r \in Responses, plan \in Plans :
         LET p == GetUserPlan(NewClient(cfg), r, plan)
         IN /\ log' = Append(log, p.req)
            /\ loc' = [loc EXCEPT !.plan = p.res]
            /\ IF p.err # NoErr THEN Exit(Wrapf("failed to check plan: ", p.err))
               ELSE IF quotaExceeded(p.res[1])
               THEN Exit(Errorf("web instance limit reached", <<>>))
               ELSE pc' = "register" /\ UNCHANGED ret
    /\ UNCHANGED <<disk, cfg, cloud, out>>

SshWebRegister ==
    /\ pc = "register" /\ inv.cmd = "ssh web"
    /\ UNCHANGED inv
    /\ LET q == RegisterWebInstanceReq(NewClient(cfg), webRecord(inv))
       IN \E r \in Answers(cloud, q) :
            LET x == RegisterWebInstance(NewClient(cfg), webRecord(inv), r,
                                         Serve(cloud, q).payload)
            IN /\ log' = Append(log, x.req)
               /\ cloud' = After(cloud, q, r)
               /\ loc' = [loc EXCEPT !.instance = x.res]
               /\ IF x.err # NoErr
                  THEN Exit(Wrapf("failed to register web instance: ", x.err))
                  ELSE pc' = "ssh" /\ UNCHANGED ret
    /\ UNCHANGED <<disk, cfg, out>>

SshWebRun ==
    /\ pc = "ssh" /\ inv.cmd = "ssh web"
    /\ UNCHANGED inv
    /\ \E o \in SSHOutcomes :
         LET h == parseSSHHost(inv.hostArg)
             user == effectiveUser(h.user, inv.sshUser)
             sshArgs == buildSSHArgs(user, h.host, inv.sshPort, inv.sshKey)
             installCmd == webInstallCmd(cfg, webPortOf(inv), inv.domain, inv.ssl)
             e == runSSHCommandErr(o)
         IN /\ log' = Append(log, SSHCall(sshArgs, installCmd, o))
            /\ loc' = [loc EXCEPT !.user = user, !.host = h.host, !.name = webNameOf(inv),
                                  !.webPort = webPortOf(inv), !.sshArgs = sshArgs,
                                  !.installCmd = installCmd, !.sshErr = e]
            /\ pc' = afterSSH(e)
    /\ UNCHANGED <<disk, cfg, cloud, ret, out>>

\* The compensating removal; its own error is dropped.
SshWebCleanup ==
    /\ pc = "cleanup" /\ inv.cmd = "ssh web"
    /\ UNCHANGED inv
    /\ LET q == RemoveWebInstanceReq(NewClient(cfg), loc.instance[1].ID)
       IN \E r \in Answers(cloud, q) :
            LET x == RemoveWebInstance(NewClient(cfg), loc.instance[1].ID, r)
            IN /\ log' = Append(log, x.req)
               /\ cloud' = After(cloud, q, r)
               /\ Exit(deployErr(loc.sshErr, x.err))
    /\ UNCHANGED <<disk, cfg, loc, out>>

\* The status update after a successful install; its error is dropped.
SshWebUpdate ==
    /\ pc = "update" /\ inv.cmd = "ssh web"
    /\ UNCHANGED inv
    /\ LET instance == markOnline(loc.instance[1])
           q == UpdateWebInstanceReq(NewClient(cfg), instance)
       IN \E r \in Answers(cloud, q) :
            LET x == UpdateWebInstance(NewClient(cfg), instance, r)
            IN /\ log' = Append(log, x.req)
               /\ cloud' = After(cloud, q, r)
               /\ loc' = [loc EXCEPT !.instance = Ptr(instance)]
               /\ Exit(NoErr)
               /\ out' = <<[what |-> "Web Dashboard Deployed Successfully!",
                            val |-> <<instance.Name, instance.ID, instance.URL>>]>>
    /\ UNCHANGED <<disk, cfg>>


(***************************************************************************)
(* The command lines and the environments a process can start in.          *)
(***************************************************************************)
ConfirmInvs(c, refs) ==
    {[BaseInv EXCEPT !.cmd = c, !.ref = x, !.force = TRUE] : x \in refs}
    \cup {[BaseInv EXCEPT !.cmd = c, !.ref = x, !.confirm = a] : x \in refs, a \in Answers_yn}

WebRefs == {<<"w1">>, <<"nope">>}

RefInvs ==
    {[BaseInv EXCEPT !.cmd = c, !.ref = x] :
        c \in {"server show", "server metrics", "server history", "server install"},
        x \in Refs}
    \cup ConfirmInvs("server delete", Refs)
    \cup {[BaseInv EXCEPT !.cmd = "server update", !.ref = x, !.name = n] :
            x \in Refs, n \in {<<>>, <<"Web">>}}
    \cup {[BaseInv EXCEPT !.cmd = "server key", !.ref = x, !.regenerate = g,
                          !.outputFmt = f] :
            x \in Refs, g \in BOOLEAN, f \in {"table", "json", "yaml"}}

WebInvs ==
    {[BaseInv EXCEPT !.cmd = c] : c \in {"web list", "web status"}}
    \cup {[BaseInv EXCEPT !.cmd = "web check", !.ref = x] : x \in WebRefs}
    \cup ConfirmInvs("web remove", WebRefs)

HostArgs == {<<"h1">>, <<"alice", "@", "h1">>, <<"@", "h1">>, <<"bob", "@", "h1", "@", "x">>}

SshAgentInvs ==
    {[BaseInv EXCEPT !.cmd = "ssh agent", !.hostArg = h, !.server = x, !.name = n,
                     !.sshUser = u] :
        h \in HostArgs, x \in {<<>>, <<"s1">>, <<"web">>, <<"nope">>}, n \in {<<>>, <<"web">>},
        u \in {<<>>, <<"admin">>}}

\* Values of --web-port: unset by hand, the two default ports, another one.
WebPorts == {0, 80, 443, 8080}

SshWebInvs ==
    {[BaseInv EXCEPT !.cmd = "ssh web", !.hostArg = h, !.ssl = sd[1], !.domain = sd[2],
                     !.sshUser = u] :
        h \in HostArgs, u \in {<<>>, <<"admin">>},
        sd \in {<<FALSE, <<>>>>, <<TRUE, <<"d.example.com">>>>, <<TRUE, <<>>>>}}
    \cup {[BaseInv EXCEPT !.cmd = "ssh web", !.hostArg = <<"h1">>, !.ssl = s, !.domain = d,
                          !.webPort = p] :
            s \in BOOLEAN, d \in {<<>>, <<"d.example.com">>}, p \in WebPorts}

Invocations ==
    LoginInvs \cup ConfigInvs \cup PlainInvs \cup ServerCreateInvs \cup RefInvs
    \cup WebInvs \cup SshAgentInvs \cup SshWebInvs

\* Configuration files a process can find: none, one truncated by a failed
\* write, and files written by SaveConfig after a login, a logout or a
\* config set.
InitDisks ==
    {NoFile, File(EmptyDoc),
     File(yamlMarshal(DefaultCfg)),
     File(yamlMarshal([CloudURL |-> DefaultCloudURL, Token |-> <<"tokA">>,
                       Username |-> "alice", ExpiresAt |-> 605800])),
     File(yamlMarshal([CloudURL |-> "https://set", Token |-> <<"tokB">>,
                       Username |-> "", ExpiresAt |-> 605800]))}

InitServers ==
    {<<>>,
     <<Srv(<<"s1">>, <<"web">>, 1), Srv(<<"s2">>, <<"s1">>, 2)>>,
     <<Srv(<<"s1">>, <<"Web">>, 1), Srv(<<"s2">>, <<"web">>, 2), Srv(<<"s3">>, <<"web">>, 3)>>}

InitWebs ==
    {<<>>,
     <<[ZeroWeb EXCEPT !.ID = <<"w1">>, !.Name = <<"web-h1">>, !.Host = <<"h1">>,
                       !.Port = 3001, !.URL = buildWebURL(<<"h1">>, 3001, <<>>, FALSE),
                       !.Status = "online"]>>}

Init ==
    /\ disk \in InitDisks
    /\ \E sv \in InitServers, wb \in InitWebs :
         cloud = [servers |-> sv, issued |-> Len(sv), keys |-> Len(sv),
                  webs |-> wb, webIssued |-> Len(wb)]
    /\ cfg = DefaultCfg
    /\ inv = BaseInv
    /\ pc = "idle"
    /\ loc = ZeroLoc
    /\ log = <<>>
    /\ ret = NoErr
    /\ out = <<>>

\* A process starts: cobra parses the command line and runs initConfig.
Launch ==
    /\ pc = "idle"
    /\ \E i \in Invocations, u \in CloudURLFlags, t \in Times :
         /\ inv' = [i EXCEPT !.cloudURL = u, !.now = t]
         /\ cfg' = initConfig(disk, u)
    /\ pc' = "start"
    /\ UNCHANGED <<disk, cloud, loc, log, ret, out>>

\* The process has exited; the next one reads the configuration file.
Reload ==
    /\ pc = "done"
    /\ cfg' = initConfig(disk, "")
    /\ pc' = "reloaded"
    /\ UNCHANGED <<disk, cloud, inv, loc, log, ret, out>>

Next ==
    \/ Launch
    \/ Login
    \/ Logout
    \/ ConfigSet
    \/ ConfigShow
    \/ RequireLogin
    \/ Whoami
    \/ ServerList
    \/ ServerCreate
    \/ Find
    \/ ServerShow
    \/ ServerDelete
    \/ ServerUpdate
    \/ ServerMetrics
    \/ ServerHistory
    \/ ServerInstall
    \/ ServerKey
    \/ WebList
    \/ WebStatus
    \/ WebCheck
    \/ WebRemove
    \/ SshAgentCreate
    \/ SshAgentRun
    \/ SshWebPlan
    \/ SshWebRegister
    \/ SshWebRun
    \/ SshWebCleanup
    \/ SshWebUpdate
    \/ Reload

Spec == Init /\ [][Next]_vars


(***************************************************************************)
(* Properties.  The log holds every completed gateway call, ssh invocation *)
(* and configuration write of the run, in order, with what it returned.    *)
(***************************************************************************)
CallsOf(op) == SelectSeq(log, LAMBDA e : e.op = op)

Finished == pc \in {"done", "reloaded"}

NotLoggedIn == Errorf("not logged in. Run 'vstats login' first", <<>>)

NeedLogin ==
    {"whoami", "server list", "server create", "server show", "server delete",
     "server update", "server metrics", "server history", "server install", "server key",
     "ssh agent", "ssh web", "web list", "web remove", "web status", "web check"}

\* C1: a command that requires authentication, run with an empty session
\* token, fails with the not-logged-in error, and in that run no HTTP
\* request is issued and no ssh subprocess is started.
C1_NotLoggedInFailsFast ==
    (pc # "idle" /\ inv.cmd \in NeedLogin /\ cfg.Token = <<>>) =>
        /\ log = <<>>
        /\ pc \in {"start", "done", "reloaded"}
        /\ Finished => ret = NotLoggedIn

C1_Witness ==
    /\ pc = "done" /\ inv.cmd = "ssh web" /\ cfg.Token = <<>>
    /\ ret = NotLoggedIn /\ log = <<>>

\* The run has resolved a server reference: its first call is the fetch by id.
LookedUp ==
    /\ pc # "idle"
    /\ inv.cmd \in RefCmds \/ (inv.cmd = "ssh agent" /\ inv.server # <<>>)
    /\ log # <<>>
    /\ log[1].op = "GetServer"

\* C2: when the fetch by id of the reference succeeds, the lookup returns
\* exactly the server that fetch returned, which is the server of the
\* listing whose id is the reference, and the run issues no ListServers call.
C2_FetchByIDFastPath ==
    (LookedUp /\ log[1].err = NoErr) =>
        /\ log[1].path = <<"/api/servers/", refOf(inv)>>
        /\ CallsOf("ListServers") = <<>>
        /\ pc = "found" =>
             /\ loc.server # Nil
             /\ loc.server = log[1].res
             /\ SelectSeq(cloud.servers, LAMBDA x : x.ID = refOf(inv)) = loc.server

C2_Witness ==
    /\ pc = "found" /\ inv.cmd = "server show" /\ LookedUp
    /\ log[1].err = NoErr /\ Len(log) = 1
    /\ loc.server # Nil /\ loc.server[1].ID = inv.ref
    /\ \E i \in 1..Len(cloud.servers) : cloud.servers[i].Name = inv.ref

\* The fetch by id has failed and the listing was requested.
FellBack ==
    /\ LookedUp
    /\ log[1].err # NoErr
    /\ Len(log) >= 2
    /\ log[2].op = "ListServers"

NamedAs(servers, n) == {i \in 1..Len(servers) : servers[i].Name = n}

\* C3: when the fetch by id fails and the listing succeeds with a server
\* whose name equals the reference exactly (case-sensitive), the lookup
\* returns the first such server in listing order; the fallback never
\* returns a server whose name differs from the reference.
C3_FirstExactName ==
    /\ (FellBack /\ log[2].err = NoErr /\ NamedAs(log[2].res, refOf(inv)) # {}) =>
          /\ ret # Errorf("server not found: ", refOf(inv))
          /\ pc = "found" =>
               \E i \in NamedAs(log[2].res, refOf(inv)) :
                  /\ loc.server = Ptr(log[2].res[i])
                  /\ \A j \in 1..(i - 1) : log[2].res[j].Name # refOf(inv)
    /\ (FellBack /\ pc = "found") =>
          /\ loc.server # Nil
          /\ loc.server[1].Name = refOf(inv)

C3_Witness ==
    /\ pc = "found" /\ FellBack /\ inv.ref = <<"web">>
    /\ Len(log[2].res) = 3
    /\ log[2].res[1].Name = <<"Web">>
    /\ log[2].res[3].Name = <<"web">>
    /\ loc.server = Ptr(log[2].res[2])

\* C4: when the fetch by id fails and the listing fails or holds no server
\* whose name equals the reference, the lookup fails with a not-found error
\* that holds the reference verbatim and carries none of the underlying
\* errors.
C4_NotFoundIsOpaque ==
    (FellBack /\ (log[2].err # NoErr \/ NamedAs(log[2].res, refOf(inv)) = {})) =>
        /\ Finished
        /\ Len(log) = 2
        /\ loc.server = Nil
        /\ ret = <<Frame("server not found: ", refOf(inv), 0)>>
        /\ \A i \in 1..Len(ret) :
              /\ \A j \in 1..Len(log[1].err) : ret[i] # log[1].err[j]
              /\ \A j \in 1..Len(log[2].err) : ret[i] # log[2].err[j]

C4_Witness ==
    /\ pc = "done" /\ FellBack /\ inv.ref = <<"Web">>
    /\ log[2].err # NoErr
    /\ ret = Errorf("server not found: ", <<"Web">>)

\* C5: in ssh web, when the fetched plan has is_pro = false and
\* current_count >= max_web_apps, the command fails with the quota error
\* and the run issues no RegisterWebInstance call, no other mutating
\* gateway call and no ssh invocation.
C5_QuotaStopsBeforeRegister ==
    (/\ pc # "idle" /\ inv.cmd = "ssh web"
     /\ log # <<>> /\ log[1].op = "GetUserPlan" /\ log[1].err = NoErr
     /\ ~log[1].res[1].IsPro
     /\ log[1].res[1].CurrentCount >= log[1].res[1].MaxWebApps) =>
        /\ Finished
        /\ ret = Errorf("web instance limit reached", <<>>)
        /\ Len(log) = 1
        /\ \A i \in 1..Len(log) : log[i].kind = "http" /\ log[i].method = "GET"
        /\ CallsOf("RegisterWebInstance") = <<>>
        /\ CallsOf("runSSHCommand") = <<>>

C5_Witness ==
    /\ pc = "done" /\ inv.cmd = "ssh web" /\ Len(log) = 1
    /\ log[1].err = NoErr
    /\ log[1].res[1] = [Plan |-> "free", MaxWebApps |-> 1, CurrentCount |-> 1, IsPro |-> FALSE]
    /\ ret = Errorf("web instance limit reached", <<>>)

\* The run is an ssh web whose registration succeeded and whose ssh step
\* has been taken: the log is plan, registration, ssh, ...
Deployed ==
    /\ pc # "idle" /\ inv.cmd = "ssh web"
    /\ Len(log) >= 3
    /\ log[2].op = "RegisterWebInstance" /\ log[2].err = NoErr
    /\ log[3].op = "runSSHCommand"

\* C6: in ssh web, when the registration succeeds and the ssh step fails,
\* exactly one RemoveWebInstance call is issued, for the id the
\* registration returned, and the command fails with the deployment error
\* wrapping the ssh cause, whether the removal succeeds or fails.
C6_FailedInstallIsCompensated ==
    (Deployed /\ log[3].err # NoErr /\ Finished) =>
        /\ Len(CallsOf("RemoveWebInstance")) = 1
        /\ Len(log) = 4
        /\ log[4].op = "RemoveWebInstance"
        /\ log[4].method = "DELETE"
        /\ log[4].path = <<"/api", "/web/instances/", log[2].res[1].ID>>
        /\ ret = Wrapf("deployment failed: ", log[3].err)

C6_Witness ==
    /\ pc = "done" /\ Deployed /\ Len(log) = 4
    /\ log[3].err # NoErr
    /\ log[4].op = "RemoveWebInstance" /\ log[4].err # NoErr
    /\ ret = Wrapf("deployment failed: ", log[3].err)

\* C7: in ssh web, when the ssh step succeeds the local instance status
\* becomes "online", exactly one UpdateWebInstance call carrying that status
\* is issued for the registered id, the command returns success whether
\* the update succeeds or fails, and no RemoveWebInstance call is issued.
C7_InstalledGoesOnline ==
    (Deployed /\ log[3].err = NoErr /\ Finished) =>
        /\ loc.instance # Nil
        /\ loc.instance[1].Status = "online"
        /\ Len(CallsOf("UpdateWebInstance")) = 1
        /\ Len(log) = 4
        /\ log[4].op = "UpdateWebInstance"
        /\ log[4].body.Status = "online"
        /\ log[4].body.ID = log[2].res[1].ID
        /\ log[4].path = <<"/api", "/web/instances/", log[2].res[1].ID>>
        /\ ret = NoErr
        /\ CallsOf("RemoveWebInstance") = <<>>

C7_Witness ==
    /\ pc = "done" /\ Deployed /\ Len(log) = 4
    /\ log[3].err = NoErr
    /\ log[4].op = "UpdateWebInstance" /\ log[4].err # NoErr
    /\ ret = NoErr

Settling == {"UpdateWebInstance", "RemoveWebInstance"}

Settled(l) == \E i \in 1..Len(l) : l[i].op \in Settling

RegisteredIn(l) ==
    \E i \in 1..Len(l) : l[i].op = "RegisterWebInstance" /\ l[i].err = NoErr

\* One step of an ssh web run, seen from the instance it deploys.
C8_Step ==
    (inv.cmd = "ssh web" /\ log' # log) =>
        LET new == SubSeq(log', Len(log) + 1, Len(log'))
        IN /\ Len(log') = Len(log) + 1
           /\ SubSeq(log', 1, Len(log)) = log
           /\ ~Settled(log)
           /\ new[1].op = "UpdateWebInstance" =>
                /\ RegisteredIn(log)
                /\ log[Len(log)].op = "runSSHCommand" /\ log[Len(log)].err = NoErr
           /\ new[1].op = "RemoveWebInstance" =>
                /\ RegisteredIn(log)
                /\ log[Len(log)].op = "runSSHCommand" /\ log[Len(log)].err # NoErr
           /\ new[1].op = "RegisterWebInstance" => ~RegisteredIn(log)
           /\ \/ cloud'.webs = cloud.webs
              \/ /\ new[1].op = "RegisterWebInstance"
                 /\ Len(cloud'.webs) = Len(cloud.webs) + 1
                 /\ SubSeq(cloud'.webs, 1, Len(cloud.webs)) = cloud.webs
                 /\ cloud'.webs[Len(cloud'.webs)].Status = "pending"
              \/ /\ new[1].op = "UpdateWebInstance"
                 /\ Has(cloud.webs, loc.instance[1].ID)
                 /\ Get(cloud.webs, loc.instance[1].ID).Status = "pending"
                 /\ cloud'.webs = Replace(cloud.webs, loc.instance[1].ID,
                                          [Get(cloud.webs, loc.instance[1].ID)
                                              EXCEPT !.Status = "online"])
              \/ /\ new[1].op = "RemoveWebInstance"
                 /\ Has(cloud.webs, loc.instance[1].ID)
                 /\ Get(cloud.webs, loc.instance[1].ID).Status = "pending"
                 /\ cloud'.webs = Without(cloud.webs, loc.instance[1].ID)

\* C8: in an ssh web run the deployed instance goes unregistered ->
\* registered (pending) -> online or removed, and no other way: the update
\* is issued only after a successful registration followed by ssh success,
\* the removal only after a successful registration followed by ssh
\* failure, never both, neither before the registration has succeeded, and
\* no call at all follows either of them.
C8_InstanceLifecycle == [][C8_Step]_vars

C8_Witness ==
    /\ pc = "done" /\ Deployed /\ Len(log) = 4
    /\ log[4].op = "UpdateWebInstance" /\ log[4].err = NoErr
    /\ Has(cloud.webs, log[2].res[1].ID)
    /\ Get(cloud.webs, log[2].res[1].ID).Status = "online"

\* C9: in ssh agent, when the ssh step fails after a server was created in
\* this run, the command fails with the deployment error wrapping the ssh
\* cause and issues no DeleteServer call: the created server stays.
C9_CreatedServerIsKept ==
    (/\ Finished /\ inv.cmd = "ssh agent"
     /\ Len(log) >= 2
     /\ log[1].op = "CreateServer" /\ log[1].err = NoErr
     /\ log[2].op = "runSSHCommand" /\ log[2].err # NoErr) =>
        /\ ret = Wrapf("deployment failed: ", log[2].err)
        /\ CallsOf("DeleteServer") = <<>>
        /\ Len(log) = 2
        /\ SelectSeq(cloud.servers, LAMBDA x : x.ID = log[1].res[1].ID) = log[1].res

C9_Witness ==
    /\ pc = "done" /\ inv.cmd = "ssh agent" /\ Len(log) = 2
    /\ log[1].op = "CreateServer" /\ log[1].err = NoErr
    /\ log[2].op = "runSSHCommand" /\ log[2].err # NoErr /\ log[2].started
    /\ Has(cloud.servers, log[1].res[1].ID)
    /\ ret = Wrapf("deployment failed: ", log[2].err)

\* C10: after a login in which the verify call reports the token valid and
\* the configuration is saved, the next process to load the persisted
\* configuration has a token equal to the token presented for verification
\* and a username equal to the username the verify call returned.
C10_LoginRoundTrip ==
    (/\ pc = "reloaded" /\ inv.cmd = "login"
     /\ Len(log) = 2
     /\ log[1].op = "VerifyToken" /\ log[1].err = NoErr /\ log[1].res[1].Valid
     /\ log[2].op = "SaveConfig" /\ log[2].err = NoErr) =>
        /\ ret = NoErr
        /\ cfg.Token = log[1].auth
        /\ cfg.Token = readToken(inv).tok
        /\ cfg.Token # <<>>
        /\ cfg.Username = log[1].res[1].Username

C10_Witness ==
    /\ pc = "reloaded" /\ inv.cmd = "login" /\ ret = NoErr
    /\ inv.token = <<>> /\ ~inv.tty /\ inv.stdin = <<" ", "tokA", " ">>
    /\ Len(log) = 2 /\ log[2].err = NoErr
    /\ cfg.Token = <<"tokA">> /\ cfg.Username = "alice"

\* A logout of a logged-in session that succeeds, as one step.
C11_LogoutStep ==
    (/\ pc = "start" /\ inv.cmd = "logout" /\ IsLoggedIn(cfg)
     /\ pc' = "done" /\ ret' = NoErr) =>
        /\ LoadConfig(disk', DefaultCfg).Token = <<>>
        /\ LoadConfig(disk', DefaultCfg).Username = ""
        /\ LoadConfig(disk', DefaultCfg).ExpiresAt = 0
        /\ LoadConfig(disk', DefaultCfg).CloudURL = LoadConfig(disk, DefaultCfg).CloudURL
        /\ ~IsLoggedIn(cfg')
        /\ ~IsLoggedIn(LoadConfig(disk', DefaultCfg))

\* C11: after a logout of a logged-in session succeeds, the persisted
\* configuration has an empty token, an empty username and expiry 0, its
\* cloud URL is the one it had before the logout, and IsLoggedIn is false.
C11_LogoutClearsSessionOnly == [][C11_LogoutStep]_vars

\* The part of C11 that the handler keeps: the three session fields are
\* cleared on disk and in memory, and the cloud URL written is the one the
\* process runs with.
C11_SessionFieldsCleared ==
    (/\ pc = "done" /\ inv.cmd = "logout"
     /\ Len(log) = 1 /\ log[1].op = "SaveConfig" /\ log[1].err = NoErr) =>
        /\ ret = NoErr
        /\ disk.exists
        /\ disk.doc.keys = {"cloud_url"}
        /\ disk.doc.cloud_url = cfg.CloudURL
        /\ cfg.Token = <<>> /\ cfg.Username = "" /\ cfg.ExpiresAt = 0

\* A logout without a session, as one step.
C12_Step ==
    (pc = "start" /\ inv.cmd = "logout" /\ ~IsLoggedIn(cfg) /\ pc' # pc) =>
        /\ pc' = "done"
        /\ ret' = NoErr
        /\ disk' = disk
        /\ cfg' = cfg
        /\ log' = log

\* After a logout that succeeded, in the process that ran it and in the
\* next one, a logout changes nothing and writes nothing.
C12_Again ==
    (Finished /\ inv.cmd = "logout" /\ ret = NoErr) =>
        \A o \in SaveOutcomes :
            /\ logoutRun(cfg, disk, o).cfg = cfg
            /\ logoutRun(cfg, disk, o).disk = disk
            /\ logoutRun(cfg, disk, o).calls = <<>>
            /\ logoutRun(cfg, disk, o).err = NoErr

\* C12: logout without a session token returns success, writes nothing to
\* the persisted configuration and leaves every field of the in-memory
\* configuration as it was; hence a logout after a logout leaves the state
\* the first one left.
C12_LogoutIdempotent == [][C12_Step]_vars /\ []C12_Again

C12_Witness ==
    /\ pc = "done" /\ inv.cmd = "logout" /\ ret = NoErr
    /\ log = <<>>
    /\ out = <<[what |-> "Not logged in", val |-> ""]>>
    /\ disk = File(yamlMarshal(DefaultCfg))
    /\ cfg.CloudURL = "https://flag"

\* The run is an ssh web that has sent its registration.
Registering ==
    /\ pc # "idle" /\ inv.cmd = "ssh web"
    /\ Len(log) >= 2
    /\ log[2].op = "RegisterWebInstance"

\* The port the handler passes to buildWebURL.
C13_Port == IF inv.webPort = 0 THEN 3001 ELSE inv.webPort

C13_Host ==
    IF \A i \in 1..Len(inv.hostArg) : inv.hostArg[i] # "@" THEN inv.hostArg
    ELSE SubSeq(inv.hostArg,
                1 + (CHOOSE k \in 1..Len(inv.hostArg) :
                        /\ inv.hostArg[k] = "@"
                        /\ \A j \in 1..(k - 1) : inv.hostArg[j] # "@"),
                Len(inv.hostArg))

URL(scheme, authority, port) == [scheme |-> scheme, authority |-> authority, port |-> port]

\* C13: the URL buildWebURL(host, port, domain, ssl) puts in the record to
\* register has scheme https iff ssl; with a domain its authority is the
\* domain and the port is left out exactly when it is the default of the
\* scheme (443 with ssl, 80 without); without a domain its authority is the
\* host and the port is left out exactly when it is 80 or 443.  So
\* (h, 443, "", ssl) is https://h, (h, 8080, "", ssl) is https://h:8080,
\* (h, 80, d.example.com, no ssl) is http://d.example.com and
\* (h, 3001, d.example.com, ssl) is https://d.example.com:3001.
C13_WebURL ==
    /\ Registering =>
        LET u == log[2].body.URL
        IN /\ (u.scheme = "https") = inv.ssl
           /\ u.scheme \in {"http", "https"}
           /\ inv.domain # <<>> =>
                /\ u.authority = inv.domain
                /\ (u.port = <<>>) = (C13_Port = IF inv.ssl THEN 443 ELSE 80)
           /\ inv.domain = <<>> =>
                /\ u.authority = C13_Host
                /\ (u.port = <<>>) = (C13_Port \in {80, 443})
           /\ u.port # <<>> => u.port = <<C13_Port>>
    /\ buildWebURL(<<"h">>, 443, <<>>, TRUE) = URL("https", <<"h">>, <<>>)
    /\ buildWebURL(<<"h">>, 8080, <<>>, TRUE) = URL("https", <<"h">>, <<8080>>)
    /\ buildWebURL(<<"h">>, 80, <<"d.example.com">>, FALSE) = URL("http", <<"d.example.com">>, <<>>)
    /\ buildWebURL(<<"h">>, 3001, <<"d.example.com">>, TRUE)
         = URL("https", <<"d.example.com">>, <<3001>>)

C13_Witness ==
    /\ Registering
    /\ inv.webPort = 443 /\ ~inv.ssl /\ inv.domain = <<>>
    /\ log[2].body.URL = URL("http", <<"h1">>, <<>>)

\* C14: a plan whose max_web_apps is negative is unlimited: whatever its
\* current count and pro flag, the pre-flight check of ssh web does not
\* fail with the quota error.
C14_NegativeMaxIsUnlimited ==
    (/\ pc # "idle" /\ inv.cmd = "ssh web"
     /\ log # <<>> /\ log[1].op = "GetUserPlan" /\ log[1].err = NoErr
     /\ log[1].res[1].MaxWebApps < 0) =>
        /\ ret # Errorf("web instance limit reached", <<>>)
        /\ pc = "done" => Len(log) > 1

\* What the pre-flight check does with a negative limit: it lets the plan
\* through exactly when the plan is pro.
C14_NegativeMaxNeedsPro ==
    (/\ Finished /\ inv.cmd = "ssh web"
     /\ log # <<>> /\ log[1].op = "GetUserPlan" /\ log[1].err = NoErr
     /\ log[1].res[1].MaxWebApps < 0) =>
        (ret = Errorf("web instance limit reached", <<>>)) = ~log[1].res[1].IsPro

\* The completed gateway calls of the run that were answered with a status
\* of 400 or more.
Refused == {i \in 1..Len(log) : log[i].kind = "http" /\ log[i].resp.t = "http"
                                  /\ log[i].resp.status >= 400}

\* The decode target of call i was left as it was: the typed operation
\* hands back nil, an empty listing or the zero value it declared.
Untouched(i) ==
    log[i].res \in {Nil, Ptr(ZeroWeb), Ptr(ZeroPlan)}

\* C15: for a response with status >= 400, Do fails and leaves the decode
\* target unwritten; when the body is a structured {error, message}
\* payload the error carries the message the server supplied, otherwise it
\* carries the status code and the body text.
C15_APIErrorCarriesMessage ==
    \A i \in Refused :
        /\ log[i].err # NoErr
        /\ Untouched(i)
        /\ IF decodeAPIError(log[i].resp).ok
           THEN \E j \in 1..Len(log[i].err) :
                   log[i].err[j].arg = <<decodeAPIError(log[i].resp).Message>>
           ELSE log[i].err = <<Frame("request failed with status : ", <<log[i].resp.body>>,
                                     log[i].resp.status)>>

\* What Do does with a structured payload: it reports the error field
\* when that is not empty, and the status and body otherwise; the message
\* field is in no error.
C15_APIErrorCarriesErrorField ==
    \A i \in Refused :
        /\ log[i].err # NoErr
        /\ Untouched(i)
        /\ IF decodeAPIError(log[i].resp).ok /\ decodeAPIError(log[i].resp).Error # ""
           THEN log[i].err = Errorf("API error: ", <<decodeAPIError(log[i].resp).Error>>)
           ELSE log[i].err = <<Frame("request failed with status : ", <<log[i].resp.body>>,
                                     log[i].resp.status)>>
        /\ \A j \in 1..Len(log[i].err) :
              log[i].err[j].arg # <<decodeAPIError(log[i].resp).Message>>

HTTPCalls == {i \in 1..Len(log) : log[i].kind = "http"}

\* The operations that decode a response into a result.
Decoding ==
    {"VerifyToken", "GetCurrentUser", "ListServers", "CreateServer", "GetServer",
     "UpdateServer", "RegenerateAgentKey", "GetInstallCommand", "GetServerMetrics",
     "GetServerHistory", "ListWebInstances", "GetWebInstance", "RegisterWebInstance",
     "CheckWebInstance", "GetUserPlan"}

\* C16: every gateway call ends either with a decoded result and no error,
\* or with an error and no result object: an error and a non-nil result
\* are never returned together.
C16_NoPartialSuccess ==
    \A i \in HTTPCalls :
        /\ log[i].err # NoErr => log[i].res = Nil
        /\ (log[i].err = NoErr /\ log[i].op \in Decoding) =>
              (log[i].resp.t = "http" /\ log[i].resp.status < 400 /\ log[i].resp.body = "json")

\* What holds of the operations of client.go, and of the web and plan
\* operations once their result is read only after the error test: an
\* error comes with nil, an empty listing or a pointer to the zero value.
C16_ErrorMeansNoData ==
    \A i \in HTTPCalls :
        /\ log[i].err # NoErr =>
              /\ log[i].res \in {Nil, Ptr(ZeroWeb), Ptr(ZeroPlan)}
              /\ log[i].res # Nil =>
                    log[i].op \in {"GetWebInstance", "RegisterWebInstance",
                                  "CheckWebInstance", "GetUserPlan"}
        /\ (log[i].err = NoErr /\ log[i].op \in Decoding) =>
              (log[i].resp.t = "http" /\ log[i].resp.status < 400 /\ log[i].resp.body = "json")

Saves == CallsOf("SaveConfig")

\* The write, if there is one, is the last call of the run and every
\* gateway call before it has succeeded.
SaveIsLast ==
    Saves # <<>> =>
        /\ Len(Saves) = 1
        /\ log[Len(log)].op = "SaveConfig"
        /\ \A i \in 1..(Len(log) - 1) : log[i].kind = "http" /\ log[i].err = NoErr

\* The finished run is a login whose token was found valid, a logout of a
\* session, or a config set of a known key.
ChangedConfig ==
    \/ /\ inv.cmd = "login"
       /\ log # <<>> /\ log[1].op = "VerifyToken" /\ log[1].err = NoErr /\ log[1].res[1].Valid
    \/ inv.cmd = "logout" /\ out # <<[what |-> "Not logged in", val |-> ""]>>
    \/ inv.cmd = "config set" /\ inv.key = "cloud_url"

\* The finished run is a server key --regenerate whose regeneration succeeded.
Regenerated ==
    /\ inv.cmd = "server key" /\ inv.regenerate
    /\ \E i \in 1..Len(log) : log[i].op = "RegenerateAgentKey" /\ log[i].err = NoErr

\* C17: each mutating command (login, logout with a session, config set,
\* server key --regenerate) writes the configuration back exactly once, as
\* its last step, after all of its gateway calls have succeeded.
C17_EveryMutationWritesOnce ==
    Finished =>
        /\ SaveIsLast
        /\ (ChangedConfig \/ Regenerated) => Len(Saves) = 1

\* C17 as the handlers have it: login, logout with a session and config
\* set write the configuration exactly once, as their last step, after all
\* of their gateway calls have succeeded; no other command writes it, and
\* server key --regenerate in particular changes only the service.
C17_ConfigChangesWriteOnce ==
    Finished =>
        /\ SaveIsLast
        /\ ChangedConfig => Len(Saves) = 1
        /\ ~ChangedConfig => Saves = <<>>

C17_Witness ==
    /\ pc = "done" /\ Regenerated /\ ret = NoErr
    /\ Saves = <<>>
    /\ log[Len(log)].op = "RegenerateAgentKey"
    /\ LoadConfig(disk, DefaultCfg) = cfg

\* The answers that are y or yes in some case.
YesAnswers == {<<"y">>, <<"Y">>, <<"yes">>, <<"Yes">>, <<"YES">>}

Deletes == {i \in 1..Len(log) : log[i].op \in {"DeleteServer", "RemoveWebInstance"}}

\* The resource the delete handler looked up, nil when the lookup failed.
LookedUpResource ==
    IF inv.cmd = "server delete" THEN loc.server
    ELSE IF log # <<>> /\ log[1].op = "GetWebInstance" /\ log[1].err = NoErr THEN log[1].res
    ELSE Nil

\* C18: in server delete and web remove the delete call is issued only if
\* --force is set or the answer is y or yes in any case; with any other
\* answer the command returns success and has issued no delete call; and
\* the delete targets the id of the resource that was looked up.
C18_DeletesAreGuarded ==
    (pc # "idle" /\ inv.cmd \in {"server delete", "web remove"}) =>
        /\ Deletes # {} => (inv.force \/ inv.confirm \in YesAnswers)
        /\ Cardinality(Deletes) <= 1
        /\ (Finished /\ LookedUpResource # Nil /\ ~inv.force /\ inv.confirm \notin YesAnswers) =>
              /\ ret = NoErr
              /\ Deletes = {}
        /\ \A i \in Deletes :
              /\ i = Len(log)
              /\ LookedUpResource # Nil
              /\ log[i].method = "DELETE"
              /\ log[i].path =
                    IF inv.cmd = "server delete"
                    THEN <<"/api/servers/", LookedUpResource[1].ID>>
                    ELSE <<"/api", "/web/instances/", LookedUpResource[1].ID>>
              /\ \E j \in 1..(i - 1) :
                    \/ log[j].res = LookedUpResource
                    \/ /\ log[j].op = "ListServers"
                       /\ \E k \in 1..Len(log[j].res) : log[j].res[k] = LookedUpResource[1]

C18_Witness ==
    /\ pc = "done" /\ inv.cmd = "server delete" /\ ret = NoErr
    /\ ~inv.force /\ inv.confirm = <<"YES">>
    /\ inv.ref = <<"web">>
    /\ Len(log) = 3 /\ log[3].op = "DeleteServer" /\ log[3].err = NoErr
    /\ ~Has(cloud.servers, loc.server[1].ID)

\* The run is a server key --regenerate that has just regenerated the key.
KeyRegenerated ==
    /\ Finished /\ inv.cmd = "server key" /\ inv.regenerate
    /\ log # <<>>
    /\ log[Len(log)].op = "RegenerateAgentKey" /\ log[Len(log)].err = NoErr

\* C19: when server key --regenerate succeeds, the key presented in the
\* table, JSON and YAML views is the key the regenerate call returned, and
\* not the agent key of the record fetched during the lookup, the two being
\* distinct.
C19_PresentsNewKey ==
    KeyRegenerated =>
        /\ ret = NoErr
        /\ Len(out) = 1
        /\ out[1].what = inv.outputFmt
        /\ out[1].val.agent_key = log[Len(log)].res[1].AgentKey
        /\ loc.server # Nil
        /\ log[Len(log)].res[1].AgentKey # loc.server[1].AgentKey
        /\ out[1].val.agent_key # loc.server[1].AgentKey
        /\ Get(cloud.servers, loc.server[1].ID).AgentKey = out[1].val.agent_key

C19_Witness ==
    /\ KeyRegenerated /\ pc = "done"
    /\ inv.outputFmt = "json"
    /\ loc.server[1].AgentKey = 2
    /\ out = <<[what |-> "json", val |-> [name |-> <<>>, agent_key |-> 4]]>>

\* The run is an ssh web whose pre-flight check has given its verdict: the
\* quota error, or a registration.
PreflightDone ==
    /\ pc # "idle" /\ inv.cmd = "ssh web"
    /\ \/ CallsOf("RegisterWebInstance") # <<>>
       \/ pc = "register"
       \/ Finished /\ ret = Errorf("web instance limit reached", <<>>)

FirstOf(op) == SetMin({i \in 1..Len(log) : log[i].op = op})

\* C20: before the quota check and before any registration, ssh web
\* fetches both the UserPlan and the caller's listing of web instances.
C20_FetchesPlanAndListing ==
    PreflightDone =>
        /\ CallsOf("GetUserPlan") # <<>>
        /\ CallsOf("ListWebInstances") # <<>>
        /\ CallsOf("RegisterWebInstance") # <<>> =>
              /\ FirstOf("GetUserPlan") < FirstOf("RegisterWebInstance")
              /\ FirstOf("ListWebInstances") < FirstOf("RegisterWebInstance")

\* C20 as the handler has it: the pre-flight of ssh web is one fetch of the
\* UserPlan, the first call of the run; the quota check is made on the
\* counts of that plan, before any registration, and the listing of web
\* instances is never requested.
C20_FetchesPlanOnly ==
    (pc # "idle" /\ inv.cmd = "ssh web") =>
        /\ CallsOf("ListWebInstances") = <<>>
        /\ Len(CallsOf("GetUserPlan")) <= 1
        /\ log # <<>> => log[1].op = "GetUserPlan"
        /\ PreflightDone =>
              /\ log[1].err = NoErr
              /\ (ret = Errorf("web instance limit reached", <<>>)) =
                    (~log[1].res[1].IsPro
                       /\ log[1].res[1].CurrentCount >= log[1].res[1].MaxWebApps)
        /\ \A i \in 1..Len(log) : log[i].op = "RegisterWebInstance" => i = 2

C20_Witness ==
    /\ pc = "register" /\ inv.cmd = "ssh web"
    /\ Len(log) = 1 /\ log[1].op = "GetUserPlan" /\ log[1].err = NoErr
    /\ log[1].res[1].CurrentCount = 0 /\ ~log[1].res[1].IsPro
    /\ cloud.webs # <<>>

\* The run is of a command that takes a name-or-id server reference.
RefRun ==
    /\ pc # "idle"
    /\ inv.cmd \in RefCmds \/ (inv.cmd = "ssh agent" /\ inv.server # <<>>)

\* The server a lookup settles on, from what the two calls returned: the
\* fetched record, else the first record of the listing with that name.
ResolvedFrom(l, ref) ==
    IF l[1].err = NoErr THEN l[1].res
    ELSE IF l[2].err # NoErr THEN Nil
    ELSE LET hits == {i \in 1..Len(l[2].res) : l[2].res[i].Name = ref}
         IN IF hits = {} THEN Nil
            ELSE Ptr(l[2].res[CHOOSE i \in hits : \A j \in hits : i <= j])

\* C21: every command that takes a name-or-id server reference starts with
\* the same lookup (a fetch by id under the reference as typed, then, only
\* if that failed, the listing), and each gateway call after the lookup
\* addresses the id of the server the lookup settled on.
C21_ResolvedIdEverywhere ==
    (RefRun /\ log # <<>>) =>
        /\ log[1].op = "GetServer" /\ log[1].method = "GET"
        /\ log[1].path = <<"/api/servers/", refOf(inv)>>
        /\ (log[1].err # NoErr) = (Len(log) >= 2 /\ log[2].op = "ListServers")
        /\ \A i \in 2..Len(log) :
              /\ log[i].op = "ListServers" => i = 2
              /\ log[i].op = "GetServer" => FALSE
              /\ (log[i].kind = "http" /\ log[i].op # "ListServers") =>
                    /\ ResolvedFrom(log, refOf(inv)) # Nil
                    /\ loc.server = ResolvedFrom(log, refOf(inv))
                    /\ log[i].op \in ServerOps
                    /\ log[i].path[1] = "/api/servers/"
                    /\ log[i].path[2] = ResolvedFrom(log, refOf(inv))[1].ID
              /\ log[i].kind = "ssh" =>
                    /\ inv.cmd = "ssh agent"
                    /\ loc.server = ResolvedFrom(log, refOf(inv))
                    /\ loc.server # Nil

C21_Witness ==
    /\ pc = "done" /\ inv.cmd = "server history" /\ inv.ref = <<"s1">>
    /\ Len(log) = 3 /\ log[1].err # NoErr /\ log[2].err = NoErr
    /\ log[3].op = "GetServerHistory" /\ log[3].err = NoErr
    /\ log[3].path[2] = <<"s2">>

\* The run is an ssh agent that has invoked ssh: the last entry of the log
\* is that invocation, and its last argument the remote command.
AgentDeploying ==
    /\ pc = "done" /\ inv.cmd = "ssh agent"
    /\ log # <<>> /\ log[Len(log)].kind = "ssh"

RemoteCmd == log[Len(log)].args[Len(log[Len(log)].args)]

\* The Server resource an ssh agent run deploys to, as the service holds it.
DeployTarget == Get(cloud.servers, loc.server[1].ID)

\* C22: the remote command of ssh agent embeds the cloud base URL, the
\* bearer token of the session and the name of the Server resource deployed
\* to: the resolved server's name with --server, the name of the newly
\* created server without.
C22_EmbedsResourceName ==
    AgentDeploying =>
        /\ RemoteCmd.script = "https://vstats.zsoft.cc/agent.sh"
        /\ RemoteCmd.flags[1] = <<"--server", cfg.CloudURL>>
        /\ RemoteCmd.flags[2] = <<"--token", cfg.Token>>
        /\ cfg.Token # <<>>
        /\ loc.server # Nil
        /\ RemoteCmd.flags[3] = <<"--name", loc.server[1].Name>>
        /\ RemoteCmd.flags[3] = <<"--name", DeployTarget.Name>>

\* What the remote command of ssh agent embeds: the cloud URL, the token,
\* and the value of --name or else the host part of the argument; that is
\* the name of the server when the run has created it.
C22_EmbedsRequestedName ==
    AgentDeploying =>
        /\ RemoteCmd.script = "https://vstats.zsoft.cc/agent.sh"
        /\ RemoteCmd.flags[1] = <<"--server", cfg.CloudURL>>
        /\ RemoteCmd.flags[2] = <<"--token", cfg.Token>>
        /\ cfg.Token # <<>>
        /\ RemoteCmd.flags[3] =
              <<"--name", IF inv.name # <<>> THEN inv.name
                          ELSE IF inv.hostArg = <<"bob", "@", "h1", "@", "x">>
                               THEN <<"h1", "@", "x">>
                          ELSE <<"h1">>>>
        /\ inv.server = <<>> =>
              /\ log[1].op = "CreateServer"
              /\ RemoteCmd.flags[3] = <<"--name", log[1].res[1].Name>>
              /\ RemoteCmd.flags[3] = <<"--name", DeployTarget.Name>>

SSHSteps == {i \in 1..Len(log) : log[i].kind = "ssh"}

\* C23: an ssh agent run with --server makes the two calls of the lookup
\* and never CreateServer; without --server it makes exactly one
\* CreateServer and neither GetServer nor ListServers.  Either way every
\* gateway call comes before the ssh step, ssh is invoked at most once and
\* only after the lookup or the creation has succeeded, and nothing
\* follows the ssh step.
C23_AgentCallSequence ==
    (pc # "idle" /\ inv.cmd = "ssh agent") =>
        /\ Cardinality(SSHSteps) <= 1
        /\ \A i \in SSHSteps :
              /\ i = Len(log) /\ i > 1
              /\ \A j \in 1..(i - 1) : log[j].kind = "http"
              /\ loc.server # Nil
              /\ IF inv.server = <<>> THEN log[1].err = NoErr
                 ELSE ResolvedFrom(log, inv.server) = loc.server
        /\ \A i \in 1..Len(log) : log[i].kind \in {"http", "ssh"}
        /\ inv.server # <<>> =>
              /\ CallsOf("CreateServer") = <<>>
              /\ \A i \in 1..Len(log) :
                    log[i].kind = "http" =>
                       \/ i = 1 /\ log[i].op = "GetServer"
                       \/ i = 2 /\ log[i].op = "ListServers" /\ log[1].err # NoErr
              /\ (Finished /\ ret # NotLoggedIn) => log # <<>>
        /\ inv.server = <<>> =>
              /\ CallsOf("GetServer") = <<>> /\ CallsOf("ListServers") = <<>>
              /\ Len(CallsOf("CreateServer")) <= 1
              /\ (Finished /\ ret # NotLoggedIn) =>
                    Len(CallsOf("CreateServer")) = 1 /\ log[1].op = "CreateServer"

C23_Witness ==
    /\ pc = "done" /\ inv.cmd = "ssh agent" /\ inv.server = <<"web">>
    /\ Len(log) = 3 /\ log[1].err # NoErr /\ log[2].err = NoErr
    /\ log[3].kind = "ssh" /\ log[3].err # NoErr /\ log[3].started

\* The (user, host) reading of a host argument: the whole argument as the
\* host when it has no "@", else the two sides of an "@" with no "@" to the
\* left of it.
SplitAtFirstAt(h) ==
    CHOOSE p \in {[user |-> SubSeq(h, 1, k - 1), host |-> SubSeq(h, k + 1, Len(h))] :
                     k \in 1..Len(h)} \cup {[user |-> <<>>, host |-> h]} :
        IF \A i \in 1..Len(h) : h[i] # "@"
        THEN p.user = <<>> /\ p.host = h
        ELSE /\ p.user \o <<"@">> \o p.host = h
             /\ \A i \in 1..Len(p.user) : p.user[i] # "@"

\* The user both handlers log in as: --user, else the parsed user, else root.
LoginUser ==
    IF inv.sshUser # <<>> THEN inv.sshUser
    ELSE IF SplitAtFirstAt(inv.hostArg).user # <<>> THEN SplitAtFirstAt(inv.hostArg).user
    ELSE <<"root">>

\* C24: in ssh agent and ssh web the host argument is split at its first
\* "@" into user and host (no "@": empty user, the whole argument as host);
\* the user in effect is --user, else the parsed user, else root; a server
\* created without --name is named after the host part, and a dashboard
\* registered without --name is named web-<host part>.
C24_UserAndHost ==
    (pc # "idle" /\ inv.cmd \in {"ssh agent", "ssh web"}) =>
        \A i \in 1..Len(log) :
            /\ log[i].kind = "ssh" =>
                  /\ loc.user = LoginUser
                  /\ loc.host = SplitAtFirstAt(inv.hostArg).host
                  /\ log[i].args[Len(log[i].args) - 1]
                        = LoginUser \o <<"@">> \o SplitAtFirstAt(inv.hostArg).host
            /\ (log[i].op = "CreateServer" /\ inv.name = <<>>) =>
                  log[i].body.name = SplitAtFirstAt(inv.hostArg).host
            /\ log[i].op = "RegisterWebInstance" =>
                  /\ log[i].body.Host = SplitAtFirstAt(inv.hostArg).host
                  /\ inv.name = <<>> =>
                        log[i].body.Name = <<"web-">> \o SplitAtFirstAt(inv.hostArg).host

C24_Witness ==
    /\ pc = "done" /\ inv.cmd = "ssh agent" /\ inv.server = <<>> /\ inv.name = <<>>
    /\ inv.hostArg = <<"bob", "@", "h1", "@", "x">> /\ inv.sshUser = <<>>
    /\ Len(log) = 2 /\ log[1].op = "CreateServer" /\ log[1].body.name = <<"h1", "@", "x">>
    /\ log[2].kind = "ssh" /\ log[2].args = <<<<"bob", "@", "h1", "@", "x">>, loc.installCmd>>

\* The run is an ssh web that has invoked ssh; WebCmd is the remote command
\* of that invocation.
WebSSHAt == {i \in 1..Len(log) : log[i].kind = "ssh"}

WebDeploying == pc \in {"cleanup", "update", "done"} /\ inv.cmd = "ssh web" /\ WebSSHAt # {}

WebCmd ==
    LET e == log[CHOOSE i \in WebSSHAt : TRUE] IN e.args[Len(e.args)]

FlagNames(c) == {c.flags[i][1] : i \in 1..Len(c.flags)}

\* C25: the remote command of ssh web always carries the cloud-mode flag,
\* the cloud URL, the bearer token and the web port; it carries --ssl and
\* --domain exactly when --ssl was given together with a non-empty domain,
\* and never one of the two without the other.
C25_WebInstallFlags ==
    WebDeploying =>
        /\ WebCmd.script = "https://vstats.zsoft.cc/install.sh"
        /\ Len(WebCmd.flags) >= 4
        /\ WebCmd.flags[1] = <<"--cloud-mode">>
        /\ WebCmd.flags[2] = <<"--cloud-url", cfg.CloudURL>>
        /\ WebCmd.flags[3] = <<"--cloud-token", cfg.Token>>
        /\ cfg.Token # <<>>
        /\ WebCmd.flags[4] = <<"--port", IF inv.webPort = 0 THEN 3001 ELSE inv.webPort>>
        /\ ("--ssl" \in FlagNames(WebCmd)) = (inv.ssl /\ inv.domain # <<>>)
        /\ ("--domain" \in FlagNames(WebCmd)) = ("--ssl" \in FlagNames(WebCmd))
        /\ "--domain" \in FlagNames(WebCmd) =>
              /\ Len(WebCmd.flags) = 6
              /\ WebCmd.flags[5] = <<"--ssl">>
              /\ WebCmd.flags[6] = <<"--domain", inv.domain>>
        /\ "--domain" \notin FlagNames(WebCmd) => Len(WebCmd.flags) = 4

C25_Witness ==
    /\ WebDeploying /\ pc = "update"
    /\ inv.ssl /\ inv.domain = <<>>
    /\ FlagNames(WebCmd) = {"--cloud-mode", "--cloud-url", "--cloud-token", "--port"}

\* A step of login that ends in one of the three failures: no token, a
\* failed VerifyToken, a verify response that is not valid.
LoginFails ==
    /\ pc = "start" /\ inv.cmd = "login" /\ pc' = "done"
    /\ \/ ret' = Errorf("token is required", <<>>)
       \/ log' # <<>> /\ log'[1].op = "VerifyToken" /\ log'[1].err # NoErr
       \/ log' # <<>> /\ log'[1].op = "VerifyToken" /\ log'[1].err = NoErr
             /\ ~log'[1].res[1].Valid

C26_Step ==
    LoginFails =>
        /\ ret' # NoErr
        /\ disk' = disk
        /\ \A i \in 1..Len(log') : log'[i].kind # "save"
        /\ cfg'.Token = cfg.Token /\ cfg'.Username = cfg.Username
        /\ cfg'.ExpiresAt = cfg.ExpiresAt
        /\ initConfig(disk', "") = initConfig(disk, "")

\* C26: a login that fails (empty token, failed VerifyToken, or a verify
\* response with valid=false) returns an error, writes nothing to the
\* persisted configuration and leaves the token, username and expiry in
\* memory as they were, so that a stored session stays usable.
C26_FailedLoginKeepsSession == [][C26_Step]_vars

C26_Witness ==
    /\ pc = "done" /\ inv.cmd = "login" /\ inv.token = <<"bad">>
    /\ ret = Errorf("invalid token", <<>>)
    /\ cfg.Token = <<"tokA">> /\ cfg.Username = "alice" /\ cfg.ExpiresAt = 605800
    /\ disk.exists /\ disk.doc.token = <<"tokA">>
    /\ Len(log) = 1 /\ log[1].auth = <<"bad">>

\* The record an ssh web run has sent for registration.
RegisteredURL == log[2].body.URL

\* C27: in ssh web the scheme of the registered URL agrees with what is
\* installed: the URL is https exactly when the remote install command
\* carries --ssl, whatever the combination of --ssl and --domain.
C27_SchemeMatchesInstall ==
    WebDeploying =>
        /\ log[2].op = "RegisterWebInstance"
        /\ (RegisteredURL.scheme = "https") = ("--ssl" \in FlagNames(WebCmd))

\* What the two sides follow: the scheme of the registered URL follows
\* --ssl alone, the --ssl flag of the install command follows --ssl and a
\* non-empty --domain; they differ exactly for --ssl without a domain.
C27_SchemeFollowsSSLOption ==
    WebDeploying =>
        /\ log[2].op = "RegisterWebInstance"
        /\ (RegisteredURL.scheme = "https") = inv.ssl
        /\ (RegisteredURL.scheme = "http") = ~inv.ssl
        /\ ("--ssl" \in FlagNames(WebCmd)) = (inv.ssl /\ inv.domain # <<>>)

\* The target argument of an ssh invocation: the one before the command.
Target(e) == e.args[Len(e.args) - 1]

Expired == cfg.Token # <<>> /\ cfg.ExpiresAt < inv.now

\* The token an ssh invocation carries in its remote command.
EmbeddedToken(e) ==
    LET c == e.args[Len(e.args)]
    IN {c.flags[i][2] : i \in {j \in 1..Len(c.flags) : c.flags[j][1] \in {"--token", "--cloud-token"}}}

\* C29: a session is active exactly when its token is non-empty; the
\* stored expiry is never consulted.  A command that requires a session
\* passes the local check exactly when the token is non-empty, also when
\* the expiry lies in the past, and the token is then sent with every
\* gateway request and embedded in the ssh install commands.
C29_ExpiryIsNotConsulted ==
    (pc \in {"body", "found", "register", "ssh", "cleanup", "update", "done"}
       /\ inv.cmd \in NeedLogin) =>
        /\ (ret = NotLoggedIn) = (cfg.Token = <<>>)
        /\ IsLoggedIn(cfg) = (cfg.Token # <<>>)
        /\ Expired => ret # NotLoggedIn
        /\ cfg.Token = <<>> => log = <<>> /\ pc = "done"
        /\ \A i \in 1..Len(log) :
              /\ log[i].kind = "http" => log[i].auth = cfg.Token
              /\ log[i].kind = "ssh" => EmbeddedToken(log[i]) = {cfg.Token}

C29_Witness ==
    /\ pc = "done" /\ inv.cmd = "ssh agent" /\ inv.server = <<>>
    /\ Expired /\ inv.now = 700000 /\ cfg.ExpiresAt = 605800
    /\ ret = NoErr
    /\ Len(log) = 2 /\ log[1].auth = <<"tokA">> /\ log[1].err = NoErr
    /\ EmbeddedToken(log[2]) = {<<"tokA">>}

\* Tokens a configuration may hold in place of the one it holds.
OtherTokens == {<<"tokA">>, <<"tokB">>, <<"bad">>} \ {cfg.Token}

\* C30: config show never discloses the bearer token.  What it prints, in
\* each output format, is made of the cloud URL, the username, the expiry
\* and the logged-in flag only, so that for a configuration with a token
\* the output is the one the command gives for the same configuration
\* holding any other non-empty token.
C30_ConfigShowHidesToken ==
    (pc = "done" /\ inv.cmd = "config show") =>
        /\ ret = NoErr /\ Len(out) = 1 /\ log = <<>>
        /\ out[1].what = inv.outputFmt
        /\ DOMAIN out[1] = {"what", "keys", "cloud_url", "username", "logged_in", "expires_at"}
        /\ out[1].keys \subseteq {"cloud_url", "username", "logged_in", "expires_at"}
        /\ out[1].cloud_url = cfg.CloudURL /\ out[1].username = cfg.Username
        /\ out[1].expires_at \in {0, cfg.ExpiresAt}
        /\ out[1].logged_in = (cfg.Token # <<>>)
        /\ cfg.Token # <<>> =>
              \A t \in OtherTokens :
                  out = <<configOutput(inv.outputFmt, [cfg EXCEPT !.Token = t])>>

C30_Witness ==
    /\ pc = "done" /\ inv.cmd = "config show" /\ inv.outputFmt = "yaml"
    /\ cfg.Token = <<"tokB">> /\ cfg.Username = ""
    /\ out[1].keys = {"cloud_url", "logged_in", "expires_at"}
    /\ out[1].logged_in /\ out[1].expires_at = 605800

====
